---- MODULE Spec2Model ----
(***************************************************************************)
(* Verification development for rommbuddy: the identity resolver           *)
(* (src-tauri/src/dedup.rs), the two sync callers, the DAT verification    *)
(* engine (src-tauri/src/metadata/dat.rs) and the batch enrichment loop    *)
(* (src-tauri/src/metadata/mod.rs).                                        *)
(*                                                                         *)
(* SQL NULL / Rust None is the string NULL for text columns and NoId (0)   *)
(* for integer keys (SQLite rowids start at 1).  "SELECT .. LIMIT 1"       *)
(* without ORDER BY is modelled as the lowest rowid among the matching     *)
(* rows, which is what SQLite returns for a table scan and for an index    *)
(* scan over equal keys.                                                   *)
(***************************************************************************)
EXTENDS Integers, Sequences, FiniteSets, TLC

VARIABLES
    roms,        \* table roms: id -> row
    links,       \* table source_roms: <<rom_id, source_id>> -> row
    nextRomId,   \* next rowid handed out by INSERT INTO roms
    metadata,    \* table metadata: rom_id -> row                (unique rom_id)
    artwork,     \* table artwork: set of <<rom_id, art_type, url>> (unique triple)
    library,     \* table library: <<rom_id, source_id>> -> row
    hcache,      \* table hasheous_cache: rom_id -> row          (unique rom_id)
    last,        \* the most recent resolver call: arguments, result, matched row before it
    synced,      \* source items whose sync step has run (what each source reported)
    dat_files,   \* table dat_files: id -> row
    dat_entries, \* table dat_entries: id -> row
    nextDatId,   \* next rowids handed out by INSERT INTO dat_files / dat_entries
    importing,   \* the running import_dat_file call, if any
    verifying,   \* the running verify_roms call, if any
    cancel,      \* the cancellation token of each batch operation: cancelled or not,
                 \* and the number of tokens created so far
    seen,        \* rom id -> the stored hashes and reference entries its last classification
                 \* saw, and whether it repeated one that had left the rom verified
    probe,       \* a call of find_dat_match by itself: its arguments and its result
    enriching,   \* the running enrich_roms call, if any
    igdb_cache,  \* table igdb_cache: rom_id -> id of the cached game
    screenscraper_cache, \* table screenscraper_cache: rom_id -> game id, NoId for a miss
    requests,    \* the requests enrich_roms has sent to the services: <<service, rom id,
                 \* outcome>>
    racing,      \* the calls of upsert_rom_deduped that run at the same time: process ->
                 \* arguments and position
    net,         \* the clock and the calls of screenscraper::lookup_game: when each
                 \* caller's sleep ends and when each request was sent
    client,      \* one IgdbClient: its clock, last_request, token, locks and permits,
                 \* the position of each task inside query, the requests sent
    refreshing,  \* the running enrich_single_rom call, if any
    given,       \* the tables handed to reconcile_duplicates, as they were before it ran
    parsing,     \* the running parse_dat_file call: its locals and the elements read so far
    sources,     \* table sources: the ids of its rows
    tokens       \* the CancelTokenMap and the commands that registered a token in it

NULL == "NULL"
NoId == 0

Min(S) == CHOOSE x \in S : \A y \in S : x <= y

\* COALESCE(a, b)
Coalesce(a, b) == IF a # NULL THEN a ELSE b

\* NULLIF(a, b)
NullIf(a, b) == IF a = b THEN NULL ELSE a

(***************************************************************************)
(* Bounds                                                                  *)
(***************************************************************************)
MaxRomId == 3

(***************************************************************************)
(* The sources registered in the application and what they offer.          *)
(***************************************************************************)
LocalSource == 1
RommSource == 2
Sources == {LocalSource, RommSource}

SourceType(s) == IF s = LocalSource THEN "local" ELSE "romm"

\* Files below the local source's root: path -> file.  "raw" stands for the
\* bytes of the file itself, "first" for the bytes of the first zip entry
\* (equal to raw for a file that is not a zip archive).
LocalFiles ==
    [ p1 |-> [platform |-> 1, file_name |-> "a.nes", stem |-> "a", size |-> "s1",
              raw |-> "c1", first |-> "c1"],
      p2 |-> [platform |-> 1, file_name |-> "b.zip", stem |-> "b", size |-> "s2",
              raw |-> "z1", first |-> "c1"] ]

LocalPaths == DOMAIN LocalFiles

\* ROMs listed by the remote catalog server: remote id -> item.  "content"
\* stands for the bytes the server delivers for the item (RommRom carries no
\* hash of them).
RommItems ==
    [ r1 |-> [platform |-> 1, name |-> "n1", fs_name |-> "a.nes", size |-> "s1",
              regions |-> "r1", content |-> "c1", summary |-> "d1", genres |-> "g1",
              release |-> "y1", cover |-> "u1"],
      r2 |-> [platform |-> 1, name |-> NULL, fs_name |-> "c.nes", size |-> NULL,
              regions |-> "[]", content |-> "c1", summary |-> NULL, genres |-> "[]",
              release |-> NULL, cover |-> NULL] ]

RommIds == DOMAIN RommItems

\* Digests of a byte content, in the formats hash.rs prints them.
Crc32Of(c) == IF c = "c1" THEN "CRC_c1" ELSE IF c = "c2" THEN "CRC_c2" ELSE "CRC_z1"
Md5Of(c) == IF c = "c1" THEN "md5_c1" ELSE IF c = "c2" THEN "md5_c2" ELSE "md5_z1"
Sha1Of(c) == IF c = "c1" THEN "sha1_c1" ELSE IF c = "c2" THEN "sha1_c2" ELSE "sha1_z1"

(***************************************************************************)
(* Rows                                                                    *)
(***************************************************************************)
\* INSERT INTO roms (platform_id, name, file_name, file_size, regions, hash_md5):
\* every other column takes its default (NULL).
NewRom(a) ==
    [ platform_id |-> a.platform_id, name |-> a.name, file_name |-> a.file_name,
      file_size |-> a.file_size, regions |-> a.regions,
      hash_crc32 |-> NULL, hash_md5 |-> a.hash_md5, hash_sha1 |-> NULL,
      verification_status |-> NULL, dat_entry_id |-> NoId, dat_game_name |-> NULL ]

NoRom ==
    [ platform_id |-> NoId, name |-> NULL, file_name |-> NULL, file_size |-> NULL,
      regions |-> NULL, hash_crc32 |-> NULL, hash_md5 |-> NULL, hash_sha1 |-> NULL,
      verification_status |-> NULL, dat_entry_id |-> NoId, dat_game_name |-> NULL ]

NoArgs ==
    [ platform_id |-> NoId, name |-> NULL, file_name |-> NULL, file_size |-> NULL,
      regions |-> NULL, hash_md5 |-> NULL, source_id |-> NoId,
      source_rom_id |-> NULL, source_url |-> NULL ]

\* A function without the rows whose key is in K.
Without(f, K) == [k \in DOMAIN f \ K |-> f[k]]

\* A function with row k set to v (insert or replace).
With(f, k, v) == [x \in DOMAIN f \cup {k} |-> IF x = k THEN v ELSE f[x]]

\* The rows of source_roms that point to rom i.
LinksTo(i) == {k \in DOMAIN links : k[1] = i}

(***************************************************************************)
(* dedup.rs                                                                *)
(***************************************************************************)
\* SELECT id FROM roms WHERE platform_id = ? AND hash_md5 = ? LIMIT 1
FindExistingRomByHash(rs, platform_id, hash_md5) ==
    LET S == {i \in DOMAIN rs : rs[i].platform_id = platform_id
                                /\ rs[i].hash_md5 # NULL
                                /\ rs[i].hash_md5 = hash_md5}
    IN  IF S = {} THEN NoId ELSE Min(S)

\* Mutant: the lookup compares the display name instead of the file name.
FindExistingRomByDisplayName(rs, platform_id, file_name) ==
    LET S == {i \in DOMAIN rs : rs[i].platform_id = platform_id
                                /\ rs[i].name = file_name}
    IN  IF S = {} THEN NoId ELSE Min(S)

\* SELECT id FROM roms WHERE platform_id = ? AND file_name = ? LIMIT 1
FindExistingRomByFilename(rs, platform_id, file_name) ==
    LET S == {i \in DOMAIN rs : rs[i].platform_id = platform_id
                                /\ rs[i].file_name = file_name}
    IN  IF S = {} THEN NoId ELSE Min(S)

\* INSERT INTO source_roms .. ON CONFLICT(rom_id, source_id) DO UPDATE SET
\* col = COALESCE(excluded.col, source_roms.col)
LinkSource(ls, rom_id, a) ==
    LET k == <<rom_id, a.source_id>>
        incoming == [ source_rom_id |-> a.source_rom_id, source_url |-> a.source_url,
                      file_name |-> a.file_name, hash_md5 |-> a.hash_md5 ]
    IN  IF k \in DOMAIN ls
        THEN With(ls, k,
                  [ source_rom_id |-> Coalesce(incoming.source_rom_id, ls[k].source_rom_id),
                    source_url |-> Coalesce(incoming.source_url, ls[k].source_url),
                    file_name |-> Coalesce(incoming.file_name, ls[k].file_name),
                    hash_md5 |-> Coalesce(incoming.hash_md5, ls[k].hash_md5) ])
        ELSE With(ls, k, incoming)

\* Mutant: the stored name wins, the incoming one only fills an empty name.
MergeFieldsStoredNameWins(old, a) ==
    [ old EXCEPT
        !.name = Coalesce(NullIf(old.name, ""), a.name),
        !.file_size = Coalesce(a.file_size, old.file_size),
        !.regions = IF a.regions # "[]" THEN a.regions ELSE old.regions,
        !.hash_md5 = Coalesce(a.hash_md5, old.hash_md5) ]

\* The UPDATE of phase 2: the SET clause applied to the matched row.
MergeFields(old, a) ==
    [ old EXCEPT
        !.name = Coalesce(NullIf(a.name, ""), old.name),
        !.file_size = Coalesce(a.file_size, old.file_size),
        !.regions = IF a.regions # "[]" THEN a.regions ELSE old.regions,
        !.hash_md5 = Coalesce(a.hash_md5, old.hash_md5) ]

\* Mutant: a hash match counts only when the file name matches too.
HashPhaseSameFile(rs, a) ==
    /\ a.hash_md5 # NULL
    /\ a.hash_md5 # ""
    /\ FindExistingRomByHash(rs, a.platform_id, a.hash_md5) # NoId
    /\ rs[FindExistingRomByHash(rs, a.platform_id, a.hash_md5)].file_name = a.file_name

\* Phase 1 applies: a hash is supplied, it is not empty, and a row has it.
HashPhase(rs, a) ==
    /\ a.hash_md5 # NULL
    /\ a.hash_md5 # ""
    /\ FindExistingRomByHash(rs, a.platform_id, a.hash_md5) # NoId

\* upsert_rom_deduped: the tables after the call, the id returned and the
\* phase that decided.
UpsertRomDeduped(rs, ls, next, a) ==
    IF HashPhase(rs, a)
    THEN LET rom_id == FindExistingRomByHash(rs, a.platform_id, a.hash_md5)
         IN  [ roms |-> rs, links |-> LinkSource(ls, rom_id, a), next |-> next,
               ret |-> rom_id, phase |-> 1 ]
    ELSE IF FindExistingRomByFilename(rs, a.platform_id, a.file_name) # NoId
    THEN LET rom_id == FindExistingRomByFilename(rs, a.platform_id, a.file_name)
         IN  [ roms |-> [rs EXCEPT ![rom_id] = MergeFields(rs[rom_id], a)],
               links |-> LinkSource(ls, rom_id, a), next |-> next,
               ret |-> rom_id, phase |-> 2 ]
    ELSE [ roms |-> With(rs, next, NewRom(a)),
           links |-> LinkSource(ls, next, a), next |-> next + 1,
           ret |-> next, phase |-> 3 ]

\* Mutant: the row of the duplicate replaces the keeper's.
MoveRowLoserWins(t, keeper, dupe) ==
    IF dupe \in DOMAIN t
    THEN With(Without(t, {dupe}), keeper, t[dupe])
    ELSE t

\* UPDATE OR IGNORE t SET rom_id = keeper WHERE rom_id = dupe, for a table
\* with one row per rom_id: the row moves unless the keeper has one.
MoveRow(t, keeper, dupe) ==
    IF dupe \in DOMAIN t /\ keeper \notin DOMAIN t
    THEN With(Without(t, {dupe}), keeper, t[dupe])
    ELSE t

\* Mutant: the rows stay with the duplicate.
MoveLinksNowhere(ls, keeper, dupe) == ls

\* UPDATE OR IGNORE source_roms SET rom_id = keeper WHERE rom_id = dupe:
\* each row moves unless the keeper already has a row for that source (the
\* same statement runs on library, which has a row per rom and source too).
MoveLinks(ls, keeper, dupe) ==
    LET moved == {s \in Sources : <<dupe, s>> \in DOMAIN ls /\ <<keeper, s>> \notin DOMAIN ls}
        dom == (DOMAIN ls \ {<<dupe, s>> : s \in moved}) \cup {<<keeper, s>> : s \in moved}
    IN  [k \in dom |-> IF k[1] = keeper /\ k[2] \in moved THEN ls[<<dupe, k[2]>>] ELSE ls[k]]

\* UPDATE OR IGNORE on a table kept as a set of unique tuples whose first
\* component is the rom_id (artwork).
MoveTuples(t, keeper, dupe) ==
    LET Retarget(x) == [x EXCEPT ![1] = keeper]
        moved == {x \in t : x[1] = dupe /\ Retarget(x) \notin t}
    IN  (t \ moved) \cup {Retarget(x) : x \in moved}

\* DELETE FROM roms WHERE id = dupe, with the ON DELETE CASCADE of the
\* tables that reference roms.
DeleteRom(db, dupe) ==
    [ roms |-> Without(db.roms, {dupe}),
      links |-> Without(db.links, {k \in DOMAIN db.links : k[1] = dupe}),
      metadata |-> Without(db.metadata, {dupe}),
      artwork |-> {x \in db.artwork : x[1] # dupe},
      library |-> Without(db.library, {k \in DOMAIN db.library : k[1] = dupe}),
      hcache |-> Without(db.hcache, {dupe}) ]

\* The body of "for &dupe_id in dupes".
MergeDupe(db, keeper, dupe) ==
    DeleteRom([ roms |-> db.roms,
                links |-> MoveLinks(db.links, keeper, dupe),
                metadata |-> MoveRow(db.metadata, keeper, dupe),
                artwork |-> MoveTuples(db.artwork, keeper, dupe),
                library |-> MoveLinks(db.library, keeper, dupe),
                hcache |-> MoveRow(db.hcache, keeper, dupe) ],
              dupe)

\* Mutant: only the first duplicate of a group is merged.
FirstDupeOf(ids) == {Min(ids \ {Min(ids)})}

\* rom_ids[1..]: the members of a group that are merged into the keeper.
DupesOf(ids) == ids \ {Min(ids)}

RECURSIVE MergeDupes(_, _, _)
MergeDupes(db, keeper, dupes) ==
    IF dupes = {} THEN db
    ELSE MergeDupes(MergeDupe(db, keeper, Min(dupes)), keeper, dupes \ {Min(dupes)})

\* SELECT platform_id, hash_md5 FROM roms WHERE hash_md5 IS NOT NULL AND
\* hash_md5 != '' GROUP BY platform_id, hash_md5 HAVING COUNT(*) > 1
DuplicateGroups(rs) ==
    {g \in {<<rs[i].platform_id, rs[i].hash_md5>> : i \in DOMAIN rs} :
        /\ g[2] # NULL
        /\ g[2] # ""
        /\ Cardinality({i \in DOMAIN rs : rs[i].platform_id = g[1] /\ rs[i].hash_md5 = g[2]}) > 1}

\* SELECT id FROM roms WHERE platform_id = ? AND hash_md5 = ? ORDER BY id
GroupIds(rs, g) == {i \in DOMAIN rs : rs[i].platform_id = g[1] /\ rs[i].hash_md5 = g[2]}

\* reconcile_duplicates: "for (platform_id, hash_md5) in &groups".
RECURSIVE ReconcileGroups(_, _, _)
ReconcileGroups(db, groups, merged_count) ==
    IF groups = {} THEN [db |-> db, merged_count |-> merged_count]
    ELSE LET g == CHOOSE x \in groups : TRUE
             ids == GroupIds(db.roms, g)
         IN  IF Cardinality(ids) < 2
             THEN ReconcileGroups(db, groups \ {g}, merged_count)
             ELSE ReconcileGroups(MergeDupes(db, Min(ids), DupesOf(ids)),
                                  groups \ {g},
                                  merged_count + Cardinality(DupesOf(ids)))

\* Mutant: the count starts at one.
ReconcileDuplicatesCountsFromOne(db) == ReconcileGroups(db, DuplicateGroups(db.roms), 1)

\* reconcile_duplicates: the tables afterwards and the count returned.
ReconcileDuplicates(db) == ReconcileGroups(db, DuplicateGroups(db.roms), 0)

(***************************************************************************)
(* The resolver call as a step, and the two sync loops that call it.       *)
(***************************************************************************)
dbVars == <<roms, links, nextRomId, metadata, artwork, library, hcache>>

datVars == <<dat_files, dat_entries, nextDatId, importing>>

runVars == <<verifying, cancel, seen, probe, enriching, igdb_cache, screenscraper_cache>>

auxVars == <<requests, racing, net, client, refreshing, given, parsing, sources, tokens>>

vars == <<dbVars, last, synced, datVars, runVars, auxVars>>

NoCall == [ op |-> "none", args |-> NoArgs, phase |-> 0, ret |-> NoId,
            before |-> NoRom, rep |-> FALSE ]

\* One call of upsert_rom_deduped with arguments a.
Resolve(a) ==
    LET r == UpsertRomDeduped(roms, links, nextRomId, a)
    IN  /\ r.ret <= MaxRomId
        /\ roms' = r.roms
        /\ links' = r.links
        /\ nextRomId' = r.next
        /\ last' = [ op |-> "upsert", args |-> a, phase |-> r.phase, ret |-> r.ret,
                     before |-> IF r.phase = 2 THEN roms[r.ret] ELSE NoRom,
                     rep |-> last.op = "upsert" /\ last.args = a ]

Upsert(a) ==
    /\ Resolve(a)
    /\ UNCHANGED <<metadata, artwork, library, hcache, synced, datVars, runVars, auxVars>>

\* The arguments sync_local_to_db passes for the scanned file at path p.
LocalArgs(p) ==
    [ platform_id |-> LocalFiles[p].platform, name |-> LocalFiles[p].stem,
      file_name |-> LocalFiles[p].file_name, file_size |-> LocalFiles[p].size,
      regions |-> "[]", hash_md5 |-> NULL, source_id |-> LocalSource,
      source_rom_id |-> p, source_url |-> NULL ]

\* One iteration of the loop of sync_local_to_db.
SyncLocalItem(p) ==
    /\ Resolve(LocalArgs(p))
    /\ synced' = synced \cup {<<LocalSource, p>>}
    /\ UNCHANGED <<metadata, artwork, library, hcache, datVars, runVars, auxVars>>

\* The arguments RommClient::sync_to_db passes for the remote item r.
RommArgs(r) ==
    [ platform_id |-> RommItems[r].platform,
      name |-> IF RommItems[r].name # NULL THEN RommItems[r].name ELSE RommItems[r].fs_name,
      file_name |-> RommItems[r].fs_name, file_size |-> RommItems[r].size,
      regions |-> RommItems[r].regions, hash_md5 |-> NULL, source_id |-> RommSource,
      source_rom_id |-> r, source_url |-> "url" ]

\* A row of metadata with the column defaults.
NewMetadata ==
    [ igdb_id |-> NoId, description |-> NULL, rating |-> NULL, release_date |-> NULL,
      developer |-> NULL, publisher |-> NULL, genres |-> "[]", themes |-> "[]",
      metadata_fetched_at |-> NULL ]

\* INSERT INTO metadata (rom_id, description, genres, release_date) ..
\* ON CONFLICT(rom_id) DO UPDATE of sync_to_db.
RommMetadata(md, rom_id, item) ==
    IF rom_id \in DOMAIN md
    THEN [md EXCEPT ![rom_id] =
            [ @ EXCEPT !.description = Coalesce(item.summary, @),
                       !.genres = item.genres,
                       !.release_date = Coalesce(item.release, @) ]]
    ELSE With(md, rom_id,
              [NewMetadata EXCEPT !.description = item.summary, !.genres = item.genres,
                                  !.release_date = item.release])

\* One iteration of the inner loop of RommClient::sync_to_db.
SyncRommItem(r) ==
    LET res == UpsertRomDeduped(roms, links, nextRomId, RommArgs(r))
    IN  /\ Resolve(RommArgs(r))
        /\ metadata' = RommMetadata(metadata, res.ret, RommItems[r])
        /\ artwork' = IF RommItems[r].cover # NULL
                       THEN artwork \cup {<<res.ret, "cover", RommItems[r].cover>>}
                       ELSE artwork
        /\ synced' = synced \cup {<<RommSource, r>>}
        /\ UNCHANGED <<library, hcache, datVars, runVars, auxVars>>

IsZipName(file_name) == file_name \in {"b.zip"}

\* compute_rom_hash_inner reading through the link to source s: the MD5 it
\* stores, or NULL when it returns an error.
HashViaLink(rom, link, s) ==
    IF SourceType(s) = "local"
    THEN IF link.source_rom_id \in LocalPaths
         THEN Md5Of(LocalFiles[link.source_rom_id].first)
         ELSE NULL
    ELSE IF link.source_rom_id \in RommIds /\ ~IsZipName(rom.file_name)
         THEN Md5Of(RommItems[link.source_rom_id].content)
         ELSE NULL

\* The command compute_rom_hash for rom id, reading the joined row of source s.
ComputeRomHash(id, s) ==
    /\ id \in DOMAIN roms
    /\ <<id, s>> \in DOMAIN links
    /\ roms[id].hash_md5 \in {NULL, ""}
    /\ links[<<id, s>>].source_rom_id # NULL
    /\ HashViaLink(roms[id], links[<<id, s>>], s) # NULL
    /\ roms' = [roms EXCEPT ![id].hash_md5 = HashViaLink(roms[id], links[<<id, s>>], s)]
    /\ last' = [NoCall EXCEPT !.op = "hash", !.ret = id]
    /\ UNCHANGED <<links, nextRomId, metadata, artwork, library, hcache, synced, datVars, runVars, auxVars>>

\* The command deduplicate_roms.
Reconcile ==
    LET r == ReconcileDuplicates([ roms |-> roms, links |-> links, metadata |-> metadata,
                                   artwork |-> artwork, library |-> library,
                                   hcache |-> hcache ])
    IN  /\ roms' = r.db.roms
        /\ links' = r.db.links
        /\ metadata' = r.db.metadata
        /\ artwork' = r.db.artwork
        /\ library' = r.db.library
        /\ hcache' = r.db.hcache
        /\ last' = [NoCall EXCEPT !.op = "reconcile", !.ret = r.merged_count]
        \* No statement of reconcile_duplicates names igdb_cache or
        \* screenscraper_cache: the rows of a deleted rom stay behind, or go
        \* with it where the table is declared ON DELETE CASCADE.
        /\ \E cascades \in BOOLEAN :
              /\ igdb_cache' = IF cascades
                                THEN Without(igdb_cache, DOMAIN roms \ DOMAIN r.db.roms)
                                ELSE igdb_cache
              /\ screenscraper_cache' =
                    IF cascades
                    THEN Without(screenscraper_cache, DOMAIN roms \ DOMAIN r.db.roms)
                    ELSE screenscraper_cache
        /\ UNCHANGED <<nextRomId, synced, datVars, verifying, cancel, seen, probe,
                       enriching, auxVars>>

RECURSIVE DeleteRoms(_, _)
\* DELETE FROM roms for every id of gone.
DeleteRoms(db, gone) ==
    IF gone = {} THEN db ELSE DeleteRoms(DeleteRom(db, Min(gone)), gone \ {Min(gone)})

\* The roms without a row of source_roms: id NOT IN (SELECT DISTINCT rom_id
\* FROM source_roms).
Orphans(rs, ls) == {id \in DOMAIN rs : \A k \in DOMAIN ls : k[1] # id}

\* Mutant: the clean-up deletes every rom the removed source was linked to.
RemoveSourceAndItsRoms(s) ==
    LET gone == {k[1] : k \in {x \in DOMAIN links : x[2] = s}}
        db == DeleteRoms([ roms |-> roms,
                           links |-> Without(links, {k \in DOMAIN links : k[2] = s}),
                           metadata |-> metadata, artwork |-> artwork,
                           library |-> Without(library, {k \in DOMAIN library : k[2] = s}),
                           hcache |-> hcache ], gone)
    IN  /\ roms' = db.roms
        /\ links' = db.links
        /\ metadata' = db.metadata
        /\ artwork' = db.artwork
        /\ library' = db.library
        /\ hcache' = db.hcache
        /\ sources' = sources \ {s}
        /\ last' = [NoCall EXCEPT !.op = "remove_source", !.args.source_id = s,
                                  !.phase = Cardinality({k \in DOMAIN links : k[2] = s}),
                                  !.ret = Cardinality(gone)]
        \* No statement of remove_source names igdb_cache or screenscraper_cache:
        \* the rows of a deleted rom go with it where the table is declared ON
        \* DELETE CASCADE.
        /\ \E cascades \in BOOLEAN :
              /\ igdb_cache' = IF cascades THEN Without(igdb_cache, DOMAIN roms \ DOMAIN db.roms)
                                ELSE igdb_cache
              /\ screenscraper_cache' =
                    IF cascades THEN Without(screenscraper_cache, DOMAIN roms \ DOMAIN db.roms)
                    ELSE screenscraper_cache
        /\ UNCHANGED <<nextRomId, synced, datVars, verifying, cancel, seen, probe, enriching,
                       requests, racing, net, client, refreshing, given, parsing, tokens>>

\* The command remove_source, one transaction: the links and the library rows
\* of the source, the roms left without a link (with the ON DELETE CASCADE of
\* the tables that reference roms), the row of the source.  last keeps the
\* number of links (phase) and of roms (ret) deleted.
RemoveSource(s) ==
    LET ls == Without(links, {k \in DOMAIN links : k[2] = s})
        gone == Orphans(roms, ls)
        db == DeleteRoms([ roms |-> roms, links |-> ls, metadata |-> metadata,
                           artwork |-> artwork,
                           library |-> Without(library, {k \in DOMAIN library : k[2] = s}),
                           hcache |-> hcache ], gone)
    IN  /\ roms' = db.roms
        /\ links' = db.links
        /\ metadata' = db.metadata
        /\ artwork' = db.artwork
        /\ library' = db.library
        /\ hcache' = db.hcache
        /\ sources' = sources \ {s}
        /\ last' = [NoCall EXCEPT !.op = "remove_source", !.args.source_id = s,
                                  !.phase = Cardinality(DOMAIN links) - Cardinality(DOMAIN ls),
                                  !.ret = Cardinality(gone)]
        \* No statement of remove_source names igdb_cache or screenscraper_cache:
        \* the rows of a deleted rom go with it where the table is declared ON
        \* DELETE CASCADE.
        /\ \E cascades \in BOOLEAN :
              /\ igdb_cache' = IF cascades THEN Without(igdb_cache, DOMAIN roms \ DOMAIN db.roms)
                                ELSE igdb_cache
              /\ screenscraper_cache' =
                    IF cascades THEN Without(screenscraper_cache, DOMAIN roms \ DOMAIN db.roms)
                    ELSE screenscraper_cache
        /\ UNCHANGED <<nextRomId, synced, datVars, verifying, cancel, seen, probe, enriching,
                       requests, racing, net, client, refreshing, given, parsing, tokens>>

(***************************************************************************)
(* metadata/dat.rs: the reference databases and their import               *)
(***************************************************************************)
\* Entries handed to one INSERT INTO dat_entries (batch_size in the source is
\* 500; scaled down so that an import takes more than one statement).
ChunkSize == 1

\* Highest rowid of dat_entries the model hands out.
MaxDatId == 3

\* The DAT files an operator can import, as parse_dat_file returns them.
\* Digests of content c1 appear in several entries: nes1 holds an entry that
\* agrees with c1 on the MD5 only and, after it, one that agrees on SHA1 and
\* CRC32 but carries another MD5 and is flagged as a bad dump; snes1 is
\* imported under another platform and holds the three digests of c1.
DatWorld ==
    [ nes1 |-> [ platform_slug |-> "nes", dat_type |-> "no-intro",
                 entries |-> << [ game_name |-> "G1", crc32 |-> "CRC_c2", md5 |-> "md5_c1",
                                  sha1 |-> NULL, status |-> NULL ],
                                [ game_name |-> "G2", crc32 |-> "CRC_c1", md5 |-> "md5_c2",
                                  sha1 |-> "sha1_c1", status |-> "baddump" ] >> ],
      nes2 |-> [ platform_slug |-> "nes", dat_type |-> "no-intro",
                 entries |-> << [ game_name |-> "G3", crc32 |-> "CRC_c1", md5 |-> NULL,
                                  sha1 |-> NULL, status |-> "verified" ] >> ],
      snes1 |-> [ platform_slug |-> "snes", dat_type |-> "no-intro",
                  entries |-> << [ game_name |-> "G4", crc32 |-> "CRC_c1", md5 |-> "md5_c1",
                                   sha1 |-> "sha1_c1", status |-> NULL ] >> ] ]

\* The DAT files imported for the platform of the library, and those imported
\* for another platform.
DatNames == {"nes1", "nes2"}
ForeignDats == DOMAIN DatWorld \ DatNames

\* The rows INSERT INTO dat_entries adds for entries pos .. upto of a parsed
\* file, under rowids next, next + 1, ..
ChunkRows(entries, pos, upto, next, dat_file_id) ==
    [ i \in next .. (next + (upto - pos)) |->
        [ dat_file_id |-> dat_file_id,
          game_name |-> entries[pos + (i - next)].game_name,
          crc32 |-> entries[pos + (i - next)].crc32,
          md5 |-> entries[pos + (i - next)].md5,
          sha1 |-> entries[pos + (i - next)].sha1,
          status |-> entries[pos + (i - next)].status ] ]

\* Union of two tables with disjoint keys.
Rows(t, u) == [i \in DOMAIN t \cup DOMAIN u |-> IF i \in DOMAIN t THEN t[i] ELSE u[i]]

NoImport == [ pc |-> "idle", dat |-> NULL, dat_file_id |-> NoId, pos |-> 0 ]

\* import_dat_file is called and has parsed the file.
ImportStart(d) ==
    /\ importing.pc = "idle"
    /\ nextDatId.entry + Len(DatWorld[d].entries) - 1 <= MaxDatId
    /\ importing' = [ pc |-> "delete", dat |-> d, dat_file_id |-> NoId, pos |-> 0 ]
    /\ UNCHANGED <<dbVars, last, synced, dat_files, dat_entries, nextDatId, runVars, auxVars>>

\* The entries that outlive the files gone: an import replaces the prior set
\* of its platform and type (the foreign key of the schema deletes them).
CascadeDatEntries(entries, gone) ==
    Without(entries, {e \in DOMAIN entries : entries[e].dat_file_id \in gone})

\* DELETE FROM dat_files WHERE platform_slug = ? AND dat_type = ?
ImportDelete ==
    LET d == DatWorld[importing.dat]
        gone == {f \in DOMAIN dat_files :
                    /\ dat_files[f].platform_slug = d.platform_slug
                    /\ dat_files[f].dat_type = d.dat_type}
    IN  /\ importing.pc = "delete"
        /\ dat_files' = Without(dat_files, gone)
        /\ dat_entries' = CascadeDatEntries(dat_entries, gone)
        /\ importing' = [importing EXCEPT !.pc = "insert_file"]
        /\ UNCHANGED <<dbVars, last, synced, nextDatId, runVars, auxVars>>

\* import_dat_file whose statements run before the file is parsed: the prior
\* set of the key is gone when the parse fails.
ImportUnparsedAfterDelete(d) ==
    LET gone == {f \in DOMAIN dat_files :
                    /\ dat_files[f].platform_slug = DatWorld[d].platform_slug
                    /\ dat_files[f].dat_type = DatWorld[d].dat_type}
    IN  /\ importing.pc = "idle"
        /\ dat_files' = Without(dat_files, gone)
        /\ dat_entries' = CascadeDatEntries(dat_entries, gone)
        /\ last' = [NoCall EXCEPT !.op = "import_dat_file", !.args.name = d]
        /\ UNCHANGED <<dbVars, synced, nextDatId, importing, runVars, auxVars>>

\* import_dat_file for the file of d when parse_dat_file returns Err (the file
\* cannot be opened, or the reader reports an error) or the blocking task
\* fails: the ? returns the error before the first statement.
ImportUnparsed(d) ==
    /\ importing.pc = "idle"
    /\ last' = [NoCall EXCEPT !.op = "import_dat_file", !.args.name = d]
    /\ UNCHANGED <<dbVars, synced, datVars, runVars, auxVars>>

\* INSERT INTO dat_files .. RETURNING id
ImportInsertFile ==
    LET d == DatWorld[importing.dat]
    IN  /\ importing.pc = "insert_file"
        /\ dat_files' = With(dat_files, nextDatId.file,
                             [ platform_slug |-> d.platform_slug, dat_type |-> d.dat_type,
                               entry_count |-> Len(d.entries) ])
        /\ nextDatId' = [nextDatId EXCEPT !.file = @ + 1]
        /\ importing' = [importing EXCEPT !.pc = "entries", !.dat_file_id = nextDatId.file,
                                          !.pos = 1]
        /\ UNCHANGED <<dbVars, last, synced, dat_entries, runVars, auxVars>>

\* One iteration of "for (i, chunk) in parsed.entries.chunks(batch_size)", and
\* the return after the last one.
ImportChunk ==
    LET d == DatWorld[importing.dat]
        lastpos == IF importing.pos + ChunkSize - 1 < Len(d.entries)
                   THEN importing.pos + ChunkSize - 1 ELSE Len(d.entries)
    IN  /\ importing.pc = "entries"
        /\ IF importing.pos > Len(d.entries)
           THEN /\ importing' = NoImport
                /\ UNCHANGED <<dat_entries, nextDatId>>
           ELSE /\ dat_entries' = Rows(dat_entries,
                                       ChunkRows(d.entries, importing.pos, lastpos,
                                                 nextDatId.entry, importing.dat_file_id))
                /\ nextDatId' = [nextDatId EXCEPT !.entry = @ + (lastpos - importing.pos) + 1]
                /\ importing' = [importing EXCEPT !.pos = lastpos + 1]
        /\ UNCHANGED <<dbVars, last, synced, dat_files, runVars, auxVars>>

\* Rows of the table whose column col holds the value v.
MatchBy(entries, col, v) == {i \in DOMAIN entries : entries[i][col] # NULL /\ entries[i][col] = v}

\* Mutant: the lookup tries CRC32 before MD5 and SHA1.
FindDatMatchCrcFirst(entries, crc, md5, sha1) ==
    IF crc # NULL /\ MatchBy(entries, "crc32", crc) # {}
    THEN Min(MatchBy(entries, "crc32", crc))
    ELSE IF md5 # NULL /\ MatchBy(entries, "md5", md5) # {}
    THEN Min(MatchBy(entries, "md5", md5))
    ELSE IF sha1 # NULL /\ MatchBy(entries, "sha1", sha1) # {}
    THEN Min(MatchBy(entries, "sha1", sha1))
    ELSE NoId

\* find_dat_match: the id of the row it returns, NoId for None.
FindDatMatch(entries, crc, md5, sha1) ==
    IF sha1 # NULL /\ MatchBy(entries, "sha1", sha1) # {}
    THEN Min(MatchBy(entries, "sha1", sha1))
    ELSE IF md5 # NULL /\ MatchBy(entries, "md5", md5) # {}
    THEN Min(MatchBy(entries, "md5", md5))
    ELSE IF crc # NULL /\ MatchBy(entries, "crc32", crc) # {}
    THEN Min(MatchBy(entries, "crc32", crc))
    ELSE NoId

(***************************************************************************)
(* metadata/dat.rs: verify_roms                                            *)
(***************************************************************************)
RECURSIVE IdSeq(_)
\* The ids of S in ascending order (the order of GROUP BY r.id).
IdSeq(S) == IF S = {} THEN <<>> ELSE <<Min(S)>> \o IdSeq(S \ {Min(S)})

\* A choice of one joined source_roms row per rom: the bare column
\* sr.source_rom_id of a GROUP BY r.id query comes from any row of the group,
\* whatever the type of its source; NoId stands for a rom without links.
JoinedRow(pick) ==
    \A id \in DOMAIN roms :
        IF LinksTo(id) = {} THEN pick[id] = NoId ELSE <<id, pick[id]>> \in DOMAIN links

\* The rows the query of verify_roms returns for platform filter pid (NoId
\* for None) when the joined rows are those of pick.
VerifyRows(pid, pick) ==
    LET ids == IdSeq({id \in DOMAIN roms : pid = NoId \/ roms[id].platform_id = pid})
    IN  [ k \in 1 .. Len(ids) |->
            [ rom_id |-> ids[k],
              crc |-> roms[ids[k]].hash_crc32,
              md5 |-> roms[ids[k]].hash_md5,
              sha1 |-> roms[ids[k]].hash_sha1,
              source_rom_id |-> IF pick[ids[k]] = NoId THEN NULL
                                ELSE links[<<ids[k], pick[ids[k]]>>].source_rom_id ] ]

\* path.exists(): the paths of the local files are the only ones that exist.
FileExists(path) == path \in LocalPaths

\* hash::compute_triple_hash(path): the digests of the file, of its first
\* entry when it is a zip archive.
ComputeTripleHash(path) ==
    [ crc32 |-> Crc32Of(LocalFiles[path].first), md5 |-> Md5Of(LocalFiles[path].first),
      sha1 |-> Sha1Of(LocalFiles[path].first) ]

ZeroStats == [ verified |-> 0, unverified |-> 0, bad_dump |-> 0, not_checked |-> 0 ]

\* No run of verify_roms.  cancelAt, written and done are history: the item
\* that was being processed when the token was cancelled (0: none), the items
\* for which the run has written to roms, the items the run has finished.
NoRun ==
    [ pc |-> "idle", rows |-> <<>>, i |-> 0, crc |-> NULL, md5 |-> NULL, sha1 |-> NULL,
      stats |-> ZeroStats, ret |-> "none", cancelAt |-> 0, written |-> {}, done |-> {} ]

\* Batch runs started in one behaviour (each registers a fresh token).
MaxRuns == 2

\* No token cancelled, none created yet.
NoTokens == [ verification |-> FALSE, metadata |-> FALSE, created |-> 0 ]

\* verify_library: a fresh token is registered and verify_roms runs its query.
VerifyStart(pid, pick) ==
    /\ verifying.pc = "idle"
    /\ cancel.created < MaxRuns
    /\ JoinedRow(pick)
    /\ verifying' = [NoRun EXCEPT !.pc = "top", !.rows = VerifyRows(pid, pick), !.i = 1]
    /\ cancel' = [cancel EXCEPT !.verification = FALSE, !.created = @ + 1]
    /\ UNCHANGED <<dbVars, last, synced, datVars, seen, probe, enriching, igdb_cache, screenscraper_cache, auxVars>>

\* Mutant: the loop does not look at the token.
VerifyTopIgnoresCancel ==
    /\ verifying.pc = "top"
    /\ IF verifying.i > Len(verifying.rows)
       THEN verifying' = [verifying EXCEPT !.pc = "idle", !.ret = "ok"]
       ELSE verifying' = [verifying EXCEPT !.pc = "hash"]
    /\ UNCHANGED <<dbVars, last, synced, datVars, cancel, seen, probe, enriching, igdb_cache, screenscraper_cache, auxVars>>

\* The head of the loop: the end of the rows or a cancelled token returns
\* Ok(stats), otherwise the next item starts.
VerifyTop ==
    /\ verifying.pc = "top"
    /\ IF verifying.i > Len(verifying.rows) \/ cancel.verification
       THEN verifying' = [verifying EXCEPT !.pc = "idle", !.ret = "ok"]
       ELSE verifying' = [verifying EXCEPT !.pc = "hash"]
    /\ UNCHANGED <<dbVars, last, synced, datVars, cancel, seen, probe, enriching, igdb_cache, screenscraper_cache, auxVars>>

\* Mutant: the item is skipped without being counted.
NotCheckedUncounted(v) ==
    [v EXCEPT !.pc = "top", !.i = @ + 1, !.done = @ \cup {v.i}]

\* stats.not_checked += 1; continue
NotChecked(v) ==
    [v EXCEPT !.pc = "top", !.i = @ + 1, !.stats.not_checked = @ + 1,
              !.done = @ \cup {v.i}]

\* The hashes the item is looked up with.
UseHashes(v, crc, md5, sha1) ==
    [v EXCEPT !.pc = "lookup", !.crc = crc, !.md5 = md5, !.sha1 = sha1]

\* UPDATE roms SET hash_crc32 = ?, hash_md5 = ?, hash_sha1 = ? WHERE id = ?
StoreHashes(rs, id, h) ==
    IF id \in DOMAIN rs
    THEN [rs EXCEPT ![id].hash_crc32 = h.crc32, ![id].hash_md5 = h.md5,
                    ![id].hash_sha1 = h.sha1]
    ELSE rs

\* "Compute hashes if missing and file is accessible".
VerifyHash ==
    LET v == verifying
        row == v.rows[v.i]
    IN  /\ v.pc = "hash"
        /\ IF row.crc # NULL /\ row.md5 # NULL /\ row.sha1 # NULL
           THEN /\ verifying' = UseHashes(v, row.crc, row.md5, row.sha1)
                /\ roms' = roms
           ELSE IF row.source_rom_id # NULL
           THEN IF FileExists(row.source_rom_id)
                THEN LET h == ComputeTripleHash(row.source_rom_id)
                     IN  /\ roms' = StoreHashes(roms, row.rom_id, h)
                         /\ verifying' = [UseHashes(v, h.crc32, h.md5, h.sha1)
                                            EXCEPT !.written = @ \cup {v.i}]
                ELSE /\ verifying' = NotChecked(v)
                     /\ roms' = roms
           ELSE IF row.md5 = NULL /\ row.crc = NULL /\ row.sha1 = NULL
           THEN /\ verifying' = NotChecked(v)
                /\ roms' = roms
           ELSE /\ verifying' = UseHashes(v, row.crc, row.md5, row.sha1)
                /\ roms' = roms
        /\ UNCHANGED <<links, nextRomId, metadata, artwork, library, hcache, last, synced,
                       datVars, cancel, seen, probe, enriching, igdb_cache, screenscraper_cache, auxVars>>

\* Mutant: every match counts as verified.
VerificationOfAnyMatch(status) == "verified"

\* The status stored for a match whose dump status is status.
VerificationOf(status) == IF status = "baddump" THEN "bad_dump" ELSE "verified"

\* The stored hashes of a row of roms.
StoredHashes(rom) == [ crc32 |-> rom.hash_crc32, md5 |-> rom.hash_md5, sha1 |-> rom.hash_sha1 ]

\* Mutant: a row that already carries a reference entry is not matched again.
ClassifiedOnce(rom, entries, m) ==
    IF m # NoId /\ rom.dat_entry_id = NoId
    THEN [rom EXCEPT !.verification_status = VerificationOf(entries[m].status),
                     !.dat_entry_id = m,
                     !.dat_game_name = entries[m].game_name]
    ELSE [rom EXCEPT !.verification_status = "unverified"]

\* The row after the UPDATE of the match arm (m is the matched entry) or of
\* the None arm (m is NoId).
Classified(rom, entries, m) ==
    IF m # NoId
    THEN [rom EXCEPT !.verification_status = VerificationOf(entries[m].status),
                     !.dat_entry_id = m,
                     !.dat_game_name = entries[m].game_name]
    ELSE [rom EXCEPT !.verification_status = "unverified"]

\* "Look up in dat_entries by any available hash" and the match on the result.
VerifyClassify ==
    LET v == verifying
        id == v.rows[v.i].rom_id
        m == FindDatMatch(dat_entries, v.crc, v.md5, v.sha1)
        next == [v EXCEPT !.pc = "top", !.i = @ + 1, !.done = @ \cup {v.i}]
    IN  /\ v.pc = "lookup"
        /\ IF m # NoId
           THEN /\ roms' = IF id \in DOMAIN roms
                           THEN [roms EXCEPT ![id] = Classified(roms[id], dat_entries, m)]
                           ELSE roms
                /\ verifying' =
                      IF VerificationOf(dat_entries[m].status) = "bad_dump"
                      THEN [next EXCEPT !.stats.bad_dump = @ + 1, !.written = @ \cup {v.i}]
                      ELSE [next EXCEPT !.stats.verified = @ + 1, !.written = @ \cup {v.i}]
           ELSE IF v.crc # NULL \/ v.md5 # NULL \/ v.sha1 # NULL
           THEN /\ roms' = IF id \in DOMAIN roms
                           THEN [roms EXCEPT ![id] = Classified(roms[id], dat_entries, m)]
                           ELSE roms
                /\ verifying' = [next EXCEPT !.stats.unverified = @ + 1,
                                             !.written = @ \cup {v.i}]
           ELSE /\ roms' = roms
                /\ verifying' = [next EXCEPT !.stats.not_checked = @ + 1]
        /\ seen' = IF id \in DOMAIN roms
                   THEN With(seen, id, [ hashes |-> StoredHashes(roms[id]),
                                         entries |-> dat_entries,
                                         again |-> /\ id \in DOMAIN seen
                                                   /\ seen[id].hashes = StoredHashes(roms[id])
                                                   /\ seen[id].entries = dat_entries
                                                   /\ roms[id].verification_status = "verified" ])
                   ELSE seen
        /\ UNCHANGED <<links, nextRomId, metadata, artwork, library, hcache, last, synced,
                       datVars, cancel, probe, enriching, igdb_cache, screenscraper_cache, auxVars>>

\* cancel_verification while a run is registered.
CancelVerification ==
    /\ verifying.pc # "idle"
    /\ ~cancel.verification
    /\ cancel' = [cancel EXCEPT !.verification = TRUE]
    /\ verifying' = [verifying EXCEPT
                        !.cancelAt = IF verifying.pc \in {"hash", "lookup"}
                                     THEN verifying.i ELSE 0]
    /\ UNCHANGED <<dbVars, last, synced, datVars, seen, probe, enriching, igdb_cache, screenscraper_cache, auxVars>>

NoProbe == [ crc |-> NULL, md5 |-> NULL, sha1 |-> NULL, called |-> FALSE, ret |-> NoId ]

\* find_dat_match called with the hashes of the probe.
Lookup ==
    /\ ~probe.called
    /\ probe' = [probe EXCEPT !.called = TRUE,
                              !.ret = FindDatMatch(dat_entries, probe.crc, probe.md5, probe.sha1)]
    /\ UNCHANGED <<dbVars, last, synced, datVars, verifying, cancel, seen, enriching,
                   igdb_cache, screenscraper_cache, auxVars>>

(***************************************************************************)
(* metadata/mod.rs: the batch enrichment loop and the services it asks     *)
(***************************************************************************)
\* Table platforms.
Platforms == << [ slug |-> "nes", screenscraper_id |-> 3 ] >>

\* Files in the download cache directory: file name -> bytes.
RomCache == [ x \in {"c.nes"} |-> "c1" ]

\* What the hash lookup service knows: MD5 -> answer.
HasheousWorld ==
    [ md5_c1 |-> [ name |-> "HN", publisher |-> NULL, year |-> "1990", description |-> "hd",
                   genres |-> "[]", igdb_game_id |-> 7 ] ]

\* What the game database knows: id -> game, and the id its search returns
\* for a name (NoId: no result).
IgdbWorld ==
    [ x \in {7} |-> [ id |-> 7, description |-> "gd", developer |-> "gdev",
                      publisher |-> "Acme Corp", genres |-> "[ig]", themes |-> "[]",
                      rating |-> "9", release_date |-> "1991", cover |-> "igdb_cover",
                      screenshots |-> {"igdb_shot"} ] ]

IgdbSearch(name) == IF name \in {"HN", "n1", "b"} THEN 7 ELSE NoId

\* The imported community database: launchbox_games by normalized name, with
\* the images of each game.
LaunchBoxWorld ==
    [ b |-> [ database_id |-> "lb1", overview |-> "ld", developer |-> "ldev",
              publisher |-> "Acme", genres |-> "[lg]", release_date |-> NULL,
              community_rating |-> "8", cover |-> "lb_cover", screenshots |-> {"lb_shot"} ] ]

\* What the screenshot database returns for a rom name.
ScreenScraperWorld ==
    [ x \in {"c.nes"} |-> [ game_id |-> 9, synopsis |-> "sd", developer |-> NULL,
                            publisher |-> "sp", genres |-> "[]", release_date |-> "1992",
                            rating |-> NULL,
                            media |-> {<<"cover", "ss_cover">>, <<"fanart", "ss_fan">>} ] ]

\* The files of the boxart mirror: category -> game name -> url.
LibretroWorld ==
    [ Named_Boxarts |-> [ b |-> "boxart_b" ],
      Named_Snaps |-> [ HN |-> "snap_HN", b |-> "snap_b" ],
      Named_Titles |-> [ HN |-> "title_HN" ] ]

\* launchbox::normalize_for_match on the names that occur: lower case, every
\* run of other characters a single space.
NormalizeForMatch(name) ==
    IF name = "HN" THEN "hn" ELSE IF name = "c.nes" THEN "c nes" ELSE name

\* ORDER BY r.name over the names that occur.
NameOrder == << "HN", "a", "b", "c.nes", "n1", "n2" >>

NameRank(name) == CHOOSE k \in DOMAIN NameOrder : NameOrder[k] = name

RECURSIVE ByName(_, _)
\* The ids of S ordered by the name of their row, ties by id.
ByName(rs, S) ==
    IF S = {} THEN <<>>
    ELSE LET least == Min({NameRank(rs[i].name) : i \in S})
             first == Min({i \in S : NameRank(rs[i].name) = least})
         IN  <<first>> \o ByName(rs, S \ {first})

\* (SELECT COUNT(*) FROM artwork WHERE rom_id = r.id AND art_type = 'cover')
HasCover(art, id) == \E x \in art : x[1] = id /\ x[2] = "cover"

\* WHERE (has_cover = 0 OR m.metadata_fetched_at IS NULL OR hc.id IS NULL)
Unenriched(id) ==
    \/ ~HasCover(artwork, id)
    \/ id \notin DOMAIN metadata
    \/ metadata[id].metadata_fetched_at = NULL
    \/ id \notin DOMAIN hcache

\* fetch_unenriched_roms for platform filter pid, the link row of the scalar
\* subqueries being that of pick.
EnrichRows(pid, pick) ==
    LET ids == ByName(roms, {id \in DOMAIN roms :
                                /\ Unenriched(id)
                                /\ (pid = NoId \/ roms[id].platform_id = pid)})
    IN  [ k \in 1 .. Len(ids) |->
            [ id |-> ids[k],
              name |-> roms[ids[k]].name,
              platform_slug |-> Platforms[roms[ids[k]].platform_id].slug,
              has_cover |-> HasCover(artwork, ids[k]),
              hash_md5 |-> roms[ids[k]].hash_md5,
              source_type |-> IF pick[ids[k]] = NoId THEN NULL
                              ELSE SourceType(pick[ids[k]]),
              source_rom_id |-> IF pick[ids[k]] = NoId THEN NULL
                                ELSE links[<<ids[k], pick[ids[k]]>>].source_rom_id,
              screenscraper_id |-> Platforms[roms[ids[k]].platform_id].screenscraper_id ] ]

\* compute_md5_if_needed: the MD5 it returns (NULL for None) and whether it
\* ran the UPDATE that stores it.  The file is hashed as it is, archive or not.
ComputeMd5IfNeeded(rs, row) ==
    IF row.hash_md5 # NULL /\ row.hash_md5 # ""
    THEN [ md5 |-> row.hash_md5, store |-> FALSE ]
    ELSE IF row.source_type = "local"
    THEN IF row.source_rom_id # NULL /\ FileExists(row.source_rom_id)
         THEN [ md5 |-> Md5Of(LocalFiles[row.source_rom_id].raw), store |-> TRUE ]
         ELSE [ md5 |-> NULL, store |-> FALSE ]
    ELSE IF row.id \in DOMAIN rs /\ rs[row.id].file_name \in DOMAIN RomCache
    THEN [ md5 |-> Md5Of(RomCache[rs[row.id].file_name]), store |-> TRUE ]
    ELSE [ md5 |-> NULL, store |-> FALSE ]

\* An INSERT INTO metadata .. ON CONFLICT(rom_id) DO UPDATE: the row ins when
\* the rom has none, the row upd otherwise; nothing for a rom that is gone.
UpsertMetadata(md, rs, id, ins, upd) ==
    IF id \notin DOMAIN rs THEN md
    ELSE IF id \in DOMAIN md THEN [md EXCEPT ![id] = upd]
    ELSE With(md, id, ins)

\* The metadata upsert of the hash lookup step.
HasheousMetadata(md, rs, id, res) ==
    LET old == IF id \in DOMAIN md THEN md[id] ELSE NewMetadata
    IN  UpsertMetadata(md, rs, id,
            [NewMetadata EXCEPT !.description = res.description,
                                !.publisher = res.publisher,
                                !.genres = res.genres,
                                !.release_date = res.year,
                                !.metadata_fetched_at = "hasheous"],
            [old EXCEPT !.description = Coalesce(res.description, old.description),
                        !.publisher = Coalesce(res.publisher, old.publisher),
                        !.genres = IF res.genres # "[]" THEN res.genres ELSE old.genres,
                        !.release_date = Coalesce(res.year, old.release_date),
                        !.metadata_fetched_at = "hasheous"])

\* The metadata upsert of apply_igdb_data.
IgdbMetadata(md, rs, id, game) ==
    LET old == IF id \in DOMAIN md THEN md[id] ELSE NewMetadata
    IN  UpsertMetadata(md, rs, id,
            [NewMetadata EXCEPT !.description = game.description,
                                !.developer = game.developer,
                                !.publisher = game.publisher,
                                !.genres = game.genres,
                                !.themes = game.themes,
                                !.rating = game.rating,
                                !.release_date = game.release_date,
                                !.igdb_id = game.id,
                                !.metadata_fetched_at = "igdb"],
            [old EXCEPT !.description = Coalesce(game.description, old.description),
                        !.developer = Coalesce(game.developer, old.developer),
                        !.publisher = Coalesce(game.publisher, old.publisher),
                        !.genres = IF game.genres # "[]" THEN game.genres ELSE old.genres,
                        !.themes = IF game.themes # "[]" THEN game.themes ELSE old.themes,
                        !.rating = Coalesce(game.rating, old.rating),
                        !.release_date = Coalesce(game.release_date, old.release_date),
                        !.igdb_id = game.id,
                        !.metadata_fetched_at = "igdb"])

\* The metadata upsert of the community database step.
LaunchBoxMetadata(md, rs, id, g) ==
    LET old == IF id \in DOMAIN md THEN md[id] ELSE NewMetadata
    IN  UpsertMetadata(md, rs, id,
            [NewMetadata EXCEPT !.description = g.overview,
                                !.developer = g.developer,
                                !.publisher = g.publisher,
                                !.genres = g.genres,
                                !.release_date = g.release_date,
                                !.rating = g.community_rating,
                                !.metadata_fetched_at = "launchbox"],
            [old EXCEPT !.description = Coalesce(old.description, g.overview),
                        !.developer = Coalesce(g.developer, old.developer),
                        !.publisher = Coalesce(old.publisher, g.publisher),
                        !.genres = IF old.genres = "[]" THEN g.genres ELSE old.genres,
                        !.release_date = Coalesce(old.release_date, g.release_date),
                        !.rating = Coalesce(g.community_rating, old.rating),
                        !.metadata_fetched_at = "launchbox"])

\* apply_screenscraper_metadata.
ScreenScraperMetadata(md, rs, id, d) ==
    LET old == IF id \in DOMAIN md THEN md[id] ELSE NewMetadata
    IN  UpsertMetadata(md, rs, id,
            [NewMetadata EXCEPT !.description = d.synopsis,
                                !.developer = d.developer,
                                !.publisher = d.publisher,
                                !.genres = d.genres,
                                !.release_date = d.release_date,
                                !.rating = d.rating,
                                !.metadata_fetched_at = "screenscraper"],
            [old EXCEPT !.description = Coalesce(old.description, d.synopsis),
                        !.developer = Coalesce(old.developer, d.developer),
                        !.publisher = Coalesce(old.publisher, d.publisher),
                        !.genres = IF old.genres = "[]" THEN d.genres ELSE old.genres,
                        !.release_date = Coalesce(old.release_date, d.release_date),
                        !.rating = Coalesce(old.rating, d.rating),
                        !.metadata_fetched_at = "screenscraper"])

\* Mutant: a rom one of whose requests failed is not marked.
MarkEnrichedIfAnswered(md, rs, id) ==
    IF \E r \in requests : r[2] = id /\ r[3] = "fail" THEN md
    ELSE LET old == IF id \in DOMAIN md THEN md[id] ELSE NewMetadata
         IN  UpsertMetadata(md, rs, id,
                 [NewMetadata EXCEPT !.metadata_fetched_at = "mark"],
                 [old EXCEPT !.metadata_fetched_at = Coalesce(old.metadata_fetched_at, "mark")])

\* "Mark as enriched if not already".
MarkEnriched(md, rs, id) ==
    LET old == IF id \in DOMAIN md THEN md[id] ELSE NewMetadata
    IN  UpsertMetadata(md, rs, id,
            [NewMetadata EXCEPT !.metadata_fetched_at = "mark"],
            [old EXCEPT !.metadata_fetched_at = Coalesce(old.metadata_fetched_at, "mark")])

\* Mutant: the rows inserted replace the rows of their types.
AddArtworkReplacing(art, rs, id, items) ==
    IF id \in DOMAIN rs
    THEN {y \in art : ~(y[1] = id /\ \E x \in items : x[1] = y[2])}
         \cup {<<id, x[1], x[2]>> : x \in items}
    ELSE art

\* INSERT INTO artwork .. ON CONFLICT(rom_id, art_type, url) DO NOTHING, for
\* each (art_type, url) of items.
AddArtwork(art, rs, id, items) ==
    IF id \in DOMAIN rs THEN art \cup {<<id, x[1], x[2]>> : x \in items} ELSE art

\* Step 5 of apply_igdb_data and the like: the (art_type, url) pairs of a game.
IgdbArtwork(game) ==
    (IF game.cover # NULL THEN {<<"cover", game.cover>>} ELSE {})
    \cup {<<"screenshot", u>> : u \in game.screenshots}

\* SELECT igdb_game_id FROM hasheous_cache WHERE rom_id = ? AND igdb_game_id IS NOT NULL
CachedIgdbId(hc, id) == IF id \in DOMAIN hc THEN hc[id].igdb_game_id ELSE NoId

\* How a request to a service ended: no answer (error, timeout, non-success
\* response), an answer with a result, an answer without one.
Outcome(ok, hit) == IF ~ok THEN "fail" ELSE IF hit THEN "hit" ELSE "miss"

\* The log after a request about rom id has been sent to svc; "repeat" records
\* that the service had already answered without a result for that rom.
Sent(log, svc, id, outcome) ==
    log \cup {<<svc, id, outcome>>}
        \cup (IF <<svc, id, "miss">> \in log THEN {<<svc, id, "repeat">>} ELSE {})

\* No run of enrich_roms.  md5, hasheous_name and lb_game are the locals of the
\* running item; cancelAt, written and done are history, as for verify_roms,
\* and stamps is the metadata_fetched_at each rom had when the run started.
NoEnrich ==
    [ pc |-> "idle", rows |-> <<>>, i |-> 0, igdb_batch |-> {}, md5 |-> NULL,
      hasheous_name |-> NULL, lb_game |-> NULL, ret |-> "none", cancelAt |-> 0,
      written |-> {}, done |-> {}, stamps |-> <<>> ]

\* The metadata_fetched_at of every row of metadata.
Stamps(md) == [id \in DOMAIN md |-> md[id].metadata_fetched_at]

\* The run after a step of item i that leads to program point pc.
Step(e, pc, changed) ==
    [e EXCEPT !.pc = pc, !.written = IF changed THEN @ \cup {e.i} ELSE @]

\* fetch_metadata: a fresh token is registered and enrich_roms runs its query;
\* it returns at once when no rom needs enrichment.
EnrichStart(pid, pick) ==
    /\ enriching.pc = "idle"
    /\ cancel.created < MaxRuns
    /\ JoinedRow(pick)
    /\ enriching' = IF Len(EnrichRows(pid, pick)) = 0
                    THEN [NoEnrich EXCEPT !.ret = "ok", !.stamps = Stamps(metadata)]
                    ELSE [NoEnrich EXCEPT !.pc = "prefetch", !.rows = EnrichRows(pid, pick),
                                          !.i = 1, !.stamps = Stamps(metadata)]
    /\ cancel' = [cancel EXCEPT !.metadata = FALSE, !.created = @ + 1]
    /\ UNCHANGED <<dbVars, last, synced, datVars, verifying, seen, probe, igdb_cache,
                   screenscraper_cache, auxVars>>

\* "IGDB batch optimization": the ids cached for the rows are fetched in one
\* chunk, unless the token is cancelled; ok tells whether the request succeeds.
EnrichPrefetch(ok) ==
    LET e == enriching
        ids == {CachedIgdbId(hcache, e.rows[k].id) : k \in DOMAIN e.rows} \ {NoId}
    IN  /\ e.pc = "prefetch"
        /\ enriching' = IF ids # {} /\ cancel.metadata
                        THEN [e EXCEPT !.pc = "idle", !.ret = "ok"]
                        ELSE [e EXCEPT !.pc = "top",
                                       !.igdb_batch = IF ok THEN ids \cap DOMAIN IgdbWorld
                                                      ELSE {}]
        /\ UNCHANGED <<dbVars, last, synced, datVars, verifying, cancel, seen, probe,
                       igdb_cache, screenscraper_cache, auxVars>>

\* The head of the loop: the end of the rows or a cancelled token returns
\* Ok(()), otherwise the next item starts.
EnrichTop ==
    /\ enriching.pc = "top"
    /\ IF enriching.i > Len(enriching.rows) \/ cancel.metadata
       THEN enriching' = [enriching EXCEPT !.pc = "idle", !.ret = "ok"]
       ELSE enriching' = [enriching EXCEPT !.pc = "hash"]
    /\ UNCHANGED <<dbVars, last, synced, datVars, verifying, cancel, seen, probe,
                   igdb_cache, screenscraper_cache, auxVars>>

\* Step 1: compute_md5_if_needed.
EnrichHash ==
    LET e == enriching
        row == e.rows[e.i]
        r == ComputeMd5IfNeeded(roms, row)
        rs == IF r.store /\ row.id \in DOMAIN roms
              THEN [roms EXCEPT ![row.id].hash_md5 = r.md5] ELSE roms
    IN  /\ e.pc = "hash"
        /\ roms' = rs
        /\ enriching' = [Step(e, "hasheous", rs # roms) EXCEPT !.md5 = r.md5]
        /\ UNCHANGED <<links, nextRomId, metadata, artwork, library, hcache, last, synced,
                       datVars, verifying, cancel, seen, probe, igdb_cache,
                       screenscraper_cache, auxVars>>

\* Step 2: the cached answer of the hash lookup service or a request to it
\* (ok: the request succeeds), and the metadata upsert for an answer.
EnrichHasheous(ok) ==
    LET e == enriching
        id == e.rows[e.i].id
        cached == id \in DOMAIN hcache /\ hcache[id].name # NULL
        fetched == ~cached /\ e.md5 # NULL /\ ok /\ e.md5 \in DOMAIN HasheousWorld
        hc == IF fetched /\ id \in DOMAIN roms
              THEN With(hcache, id, HasheousWorld[e.md5]) ELSE hcache
        md == IF cached THEN HasheousMetadata(metadata, roms, id, hcache[id])
              ELSE IF fetched THEN HasheousMetadata(metadata, roms, id, HasheousWorld[e.md5])
              ELSE metadata
    IN  /\ e.pc = "hasheous"
        /\ hcache' = hc
        /\ metadata' = md
        /\ enriching' = [Step(e, "igdb", hc # hcache \/ md # metadata) EXCEPT
                            !.hasheous_name = IF cached THEN hcache[id].name
                                              ELSE IF fetched THEN HasheousWorld[e.md5].name
                                              ELSE NULL]
        /\ requests' = IF ~cached /\ e.md5 # NULL
                       THEN Sent(requests, "hasheous", id, Outcome(ok, e.md5 \in DOMAIN HasheousWorld))
                       ELSE requests
        /\ UNCHANGED <<roms, links, nextRomId, artwork, library, last, synced, datVars,
                       verifying, cancel, seen, probe, igdb_cache, screenscraper_cache,
                       racing, net, client, refreshing, given, parsing, sources, tokens>>

\* Step 3: the game of the prefetched batch or of a search by name (ok: the
\* search succeeds), and apply_igdb_data for it.
EnrichIgdb(ok) ==
    LET e == enriching
        row == e.rows[e.i]
        igdb_game_id == CachedIgdbId(hcache, row.id)
        search_name == IF e.hasheous_name # NULL THEN e.hasheous_name ELSE row.name
        game == IF igdb_game_id # NoId /\ igdb_game_id \in e.igdb_batch THEN igdb_game_id
                ELSE IF ok THEN IgdbSearch(search_name)
                ELSE NoId
        ic == IF game # NoId /\ row.id \in DOMAIN roms
              THEN With(igdb_cache, row.id, game) ELSE igdb_cache
        md == IF game # NoId THEN IgdbMetadata(metadata, roms, row.id, IgdbWorld[game])
              ELSE metadata
        art == IF game # NoId THEN AddArtwork(artwork, roms, row.id, IgdbArtwork(IgdbWorld[game]))
               ELSE artwork
    IN  /\ e.pc = "igdb"
        /\ igdb_cache' = ic
        /\ metadata' = md
        /\ artwork' = art
        /\ enriching' = Step(e, "launchbox",
                             ic # igdb_cache \/ md # metadata \/ art # artwork)
        /\ requests' = IF igdb_game_id # NoId /\ igdb_game_id \in e.igdb_batch
                       THEN requests
                       ELSE Sent(requests, "igdb", row.id, Outcome(ok, IgdbSearch(search_name) # NoId))
        /\ UNCHANGED <<roms, links, nextRomId, library, hcache, last, synced, datVars,
                       verifying, cancel, seen, probe, screenscraper_cache, racing, net, client, refreshing, given, parsing, sources, tokens>>

\* launchbox::find_by_name: the key of the game in LaunchBoxWorld, NULL for None.
FindByName(name) ==
    IF NormalizeForMatch(name) \in DOMAIN LaunchBoxWorld THEN NormalizeForMatch(name) ELSE NULL

\* Step 4: the community database.
EnrichLaunchBox ==
    LET e == enriching
        row == e.rows[e.i]
        lb == FindByName(IF e.hasheous_name # NULL THEN e.hasheous_name ELSE row.name)
        md == IF lb # NULL THEN LaunchBoxMetadata(metadata, roms, row.id, LaunchBoxWorld[lb])
              ELSE metadata
        art == IF lb # NULL /\ ~row.has_cover /\ LaunchBoxWorld[lb].cover # NULL
               THEN AddArtwork(artwork, roms, row.id, {<<"cover", LaunchBoxWorld[lb].cover>>})
               ELSE artwork
    IN  /\ e.pc = "launchbox"
        /\ metadata' = md
        /\ artwork' = art
        /\ enriching' = [Step(e, "screenscraper", md # metadata \/ art # artwork)
                            EXCEPT !.lb_game = lb]
        /\ UNCHANGED <<roms, links, nextRomId, library, hcache, last, synced, datVars,
                       verifying, cancel, seen, probe, igdb_cache, screenscraper_cache, auxVars>>

\* What the screenshot database does with a request: "answer" is its answer
\* about the game (the game's JSON, or status 404/430 for a game it does not
\* have), "refused" is status 200 with a plain text that starts with "Erreur"
\* or "API closed", "error" is a transport failure or any other status.
SsReplies == {"answer", "refused", "error"}

\* screenscraper::lookup_game: "fail" for Err, "hit" for Ok(Some), "miss" for
\* Ok(None).  The plain-text errors come back as Ok(None).
LookupGame(reply, name) ==
    CASE reply = "error" -> "fail"
      [] reply = "answer" /\ name \in DOMAIN ScreenScraperWorld -> "hit"
      [] OTHER -> "miss"

\* Step 5: the screenshot database, asked once per rom; a miss is cached too.
EnrichScreenScraper(reply) ==
    LET e == enriching
        row == e.rows[e.i]
        ok == LookupGame(reply, row.name) # "fail"
        asked == row.screenscraper_id # NoId /\ row.id \notin DOMAIN screenscraper_cache /\ ok
        hit == asked /\ LookupGame(reply, row.name) = "hit"
        sc == IF asked /\ row.id \in DOMAIN roms
              THEN With(screenscraper_cache, row.id,
                        IF hit THEN ScreenScraperWorld[row.name].game_id ELSE NoId)
              ELSE screenscraper_cache
        md == IF hit THEN ScreenScraperMetadata(metadata, roms, row.id,
                                                ScreenScraperWorld[row.name])
              ELSE metadata
        art == IF hit THEN AddArtwork(artwork, roms, row.id, ScreenScraperWorld[row.name].media)
               ELSE artwork
    IN  /\ e.pc = "screenscraper"
        /\ screenscraper_cache' = sc
        /\ metadata' = md
        /\ artwork' = art
        /\ enriching' = Step(e, "cover",
                             sc # screenscraper_cache \/ md # metadata \/ art # artwork)
        /\ requests' = IF row.screenscraper_id # NoId /\ row.id \notin DOMAIN screenscraper_cache
                       THEN Sent(requests, "screenscraper", row.id,
                                 IF reply = "refused" THEN "refused"
                                 ELSE LookupGame(reply, row.name))
                       ELSE requests
        /\ UNCHANGED <<roms, links, nextRomId, library, hcache, last, synced, datVars,
                       verifying, cancel, seen, probe, igdb_cache, racing, net, client, refreshing, given, parsing, sources, tokens>>

\* The url of the mirror's file of a category for a name when the existence
\* probe finds it, NULL otherwise.
Probe(category, name, ok) ==
    IF ok /\ name \in DOMAIN LibretroWorld[category] THEN LibretroWorld[category][name]
    ELSE NULL

\* Step 6: the boxart mirror, if the rom still has no cover (ok: the probe
\* gets an answer).
EnrichCover(ok) ==
    LET e == enriching
        row == e.rows[e.i]
        current_has_cover == IF ~row.has_cover THEN HasCover(artwork, row.id) ELSE TRUE
        name == IF e.hasheous_name # NULL THEN e.hasheous_name ELSE row.name
        url == Probe("Named_Boxarts", name, ok)
        art == IF ~current_has_cover /\ url # NULL
               THEN AddArtwork(artwork, roms, row.id, {<<"cover", url>>}) ELSE artwork
    IN  /\ e.pc = "cover"
        /\ artwork' = art
        /\ enriching' = Step(e, "screenshots", art # artwork)
        /\ requests' = IF ~current_has_cover
                       THEN Sent(requests, "Named_Boxarts", row.id,
                                 Outcome(ok, name \in DOMAIN LibretroWorld.Named_Boxarts))
                       ELSE requests
        /\ UNCHANGED <<roms, links, nextRomId, metadata, library, hcache, last, synced,
                       datVars, verifying, cancel, seen, probe, igdb_cache,
                       screenscraper_cache, racing, net, client, refreshing, given, parsing, sources, tokens>>

\* Step 7: screenshots of the mirror (oks, okt: the probes get an answer) and
\* of the community database.
EnrichScreenshots(oks, okt) ==
    LET e == enriching
        row == e.rows[e.i]
        snap_name == IF e.hasheous_name # NULL THEN e.hasheous_name ELSE row.name
        urls == ({Probe("Named_Snaps", snap_name, oks), Probe("Named_Titles", snap_name, okt)}
                 \ {NULL})
                \cup (IF e.lb_game # NULL THEN LaunchBoxWorld[e.lb_game].screenshots ELSE {})
        art == AddArtwork(artwork, roms, row.id, {<<"screenshot", u>> : u \in urls})
    IN  /\ e.pc = "screenshots"
        /\ artwork' = art
        /\ enriching' = Step(e, "mark", art # artwork)
        /\ requests' =
              Sent(Sent(requests, "Named_Snaps", row.id,
                        Outcome(oks, snap_name \in DOMAIN LibretroWorld.Named_Snaps)),
                   "Named_Titles", row.id,
                   Outcome(okt, snap_name \in DOMAIN LibretroWorld.Named_Titles))
        /\ UNCHANGED <<roms, links, nextRomId, metadata, library, hcache, last, synced,
                       datVars, verifying, cancel, seen, probe, igdb_cache,
                       screenscraper_cache, racing, net, client, refreshing, given, parsing, sources, tokens>>

\* Step 8: the rom is marked as enriched and the loop goes to the next row.
EnrichMark ==
    LET e == enriching
        md == MarkEnriched(metadata, roms, e.rows[e.i].id)
    IN  /\ e.pc = "mark"
        /\ metadata' = md
        /\ enriching' = [Step(e, "top", md # metadata) EXCEPT
                            !.i = @ + 1, !.done = @ \cup {e.i}, !.md5 = NULL,
                            !.hasheous_name = NULL, !.lb_game = NULL]
        /\ UNCHANGED <<roms, links, nextRomId, artwork, library, hcache, last, synced,
                       datVars, verifying, cancel, seen, probe, igdb_cache,
                       screenscraper_cache, auxVars>>

\* cancel_metadata while a run is registered.
CancelMetadata ==
    /\ enriching.pc # "idle"
    /\ ~cancel.metadata
    /\ cancel' = [cancel EXCEPT !.metadata = TRUE]
    /\ enriching' = [enriching EXCEPT
                        !.cancelAt = IF enriching.pc \in {"idle", "prefetch", "top"}
                                     THEN 0 ELSE enriching.i]
    /\ UNCHANGED <<dbVars, last, synced, datVars, verifying, seen, probe, igdb_cache,
                   screenscraper_cache, auxVars>>

\* A task that is not inside upsert_rom_deduped.
NoRaceCall == [ pc |-> "idle", args |-> NoArgs, rom_id |-> NoId ]

\* No sync task is inside upsert_rom_deduped (one task per source).
NoRace == [s \in Sources |-> NoRaceCall]

\* The sync task of source s calls upsert_rom_deduped(a): phase 1 is entered
\* only with a hash that is supplied and not empty.
RaceCall(s, a) ==
    /\ racing[s].pc = "idle"
    /\ a.source_id = s
    /\ racing' = [racing EXCEPT ![s] =
                    [ pc |-> IF a.hash_md5 # NULL /\ a.hash_md5 # ""
                             THEN "find_hash" ELSE "find_file",
                      args |-> a, rom_id |-> NoId ]]
    /\ UNCHANGED <<dbVars, last, synced, datVars, runVars, requests, net, client, refreshing, given, parsing, sources, tokens>>

\* find_existing_rom_by_hash(..).await of phase 1.
RaceFindHash(s) ==
    LET a == racing[s].args
        rom_id == FindExistingRomByHash(roms, a.platform_id, a.hash_md5)
    IN  /\ racing[s].pc = "find_hash"
        /\ racing' = [racing EXCEPT ![s] =
                        IF rom_id # NoId
                        THEN [@ EXCEPT !.pc = "link", !.rom_id = rom_id]
                        ELSE [@ EXCEPT !.pc = "find_file"]]
        /\ UNCHANGED <<dbVars, last, synced, datVars, runVars, requests, net, client, refreshing, given, parsing, sources, tokens>>

\* find_existing_rom_by_filename(..).await of phase 2.
RaceFindFile(s) ==
    LET a == racing[s].args
        rom_id == FindExistingRomByFilename(roms, a.platform_id, a.file_name)
    IN  /\ racing[s].pc = "find_file"
        /\ racing' = [racing EXCEPT ![s] =
                        IF rom_id # NoId
                        THEN [@ EXCEPT !.pc = "update", !.rom_id = rom_id]
                        ELSE [@ EXCEPT !.pc = "insert"]]
        /\ UNCHANGED <<dbVars, last, synced, datVars, runVars, requests, net, client, refreshing, given, parsing, sources, tokens>>

\* The UPDATE roms .. WHERE id = ? of phase 2.
RaceUpdate(s) ==
    LET rom_id == racing[s].rom_id
    IN  /\ racing[s].pc = "update"
        /\ roms' = IF rom_id \in DOMAIN roms
                    THEN [roms EXCEPT ![rom_id] = MergeFields(roms[rom_id], racing[s].args)]
                    ELSE roms
        /\ racing' = [racing EXCEPT ![s].pc = "link"]
        /\ UNCHANGED <<links, nextRomId, metadata, artwork, library, hcache, last, synced,
                       datVars, runVars, requests, net, client, refreshing, given, parsing, sources, tokens>>

\* The INSERT INTO roms .. RETURNING id of phase 3.
RaceInsert(s) ==
    /\ racing[s].pc = "insert"
    /\ nextRomId <= MaxRomId
    /\ roms' = With(roms, nextRomId, NewRom(racing[s].args))
    /\ nextRomId' = nextRomId + 1
    /\ racing' = [racing EXCEPT ![s].pc = "link", ![s].rom_id = nextRomId]
    /\ UNCHANGED <<links, metadata, artwork, library, hcache, last, synced, datVars, runVars,
                   requests, net, client, refreshing, given, parsing, sources, tokens>>

\* link_source(..).await and the return of rom_id.
RaceLink(s) ==
    /\ racing[s].pc = "link"
    /\ links' = LinkSource(links, racing[s].rom_id, racing[s].args)
    /\ racing' = [racing EXCEPT ![s].pc = "done"]
    /\ UNCHANGED <<roms, nextRomId, metadata, artwork, library, hcache, last, synced, datVars,
                   runVars, requests, net, client, refreshing, given, parsing, sources, tokens>>

\* The clock at zero, nobody asleep in lookup_game, no request sent.
NoNet == [ now |-> 0, wake |-> <<>>, sent |-> {} ]

\* Clock ticks in Duration::from_secs(1): the clock of the model counts half
\* seconds.
TicksPerSecond == 2

\* The clock stops here.
MaxTime == 5

\* The tasks that call screenscraper::lookup_game: the batch run and the
\* refresh of one entry, each a command of its own.
Callers == {"enrich_roms", "enrich_single_rom"}

\* Caller c enters lookup_game and starts tokio::time::sleep(1 s): its timer
\* is its own, set from the time of the call.
RateCall(c) ==
    /\ c \notin DOMAIN net.wake
    /\ net' = [net EXCEPT !.wake = With(@, c, net.now + TicksPerSecond)]
    /\ UNCHANGED <<dbVars, last, synced, datVars, runVars, requests, racing, client, refreshing, given, parsing, sources, tokens>>

\* The sleep of caller c is over (a timer never fires early) and the request
\* is sent.
RateSend(c) ==
    /\ c \in DOMAIN net.wake
    /\ net.wake[c] <= net.now
    /\ net' = [net EXCEPT !.wake = Without(@, {c}), !.sent = @ \cup {<<c, net.now>>}]
    /\ UNCHANGED <<dbVars, last, synced, datVars, runVars, requests, racing, client, refreshing, given, parsing, sources, tokens>>

\* Half a second passes.
RateTick ==
    /\ net.now < MaxTime
    /\ net' = [net EXCEPT !.now = @ + 1]
    /\ UNCHANGED <<dbVars, last, synced, datVars, runVars, requests, racing, client, refreshing, given, parsing, sources, tokens>>

(***************************************************************************)
(* metadata/igdb.rs: the rate gate and the token of one IgdbClient          *)
(***************************************************************************)
\* min_interval of query in clock ticks (250 ms).
MinInterval == 2

\* Semaphore::new(4)
Permits == 4

\* expires_in of the token response and the 60 s taken off it, in clock ticks.
ExpiresIn == 4

TokenMargin == 1

\* The clock of the client stops here.
MaxClock == 6

\* The tasks that call query on the client at the same time.
Tasks == {"t1", "t2"}

\* token: None
NoToken == [ some |-> FALSE, expires_at |-> 0 ]

\* IgdbClient::new: no token, every permit free, last_request at least an
\* interval in the past; nobody inside query.  sent is the set of API requests
\* <<task, time>>, log the token requests and their answers in order.
NoClient ==
    [ now |-> MinInterval, last_request |-> 0, gate |-> NULL, permits |-> Permits,
      token |-> NoToken, tlock |-> NULL, pc |-> [t \in Tasks |-> "idle"],
      wake |-> [t \in Tasks |-> 0], sent |-> {}, log |-> <<>> ]

\* u64::saturating_sub
SaturatingSub(a, b) == IF a > b THEN a - b ELSE 0

\* "Check if current token is still valid", under the read lock.
TokenValid(tok, now) == tok.some /\ now < tok.expires_at

\* Mutant: no second look at the token under the write lock.
DoubleCheckSkipped(tok, now) == FALSE

\* "Double-check after acquiring write lock".
DoubleCheck(tok, now) == tok.some /\ now < tok.expires_at

\* The client after task t has sent its API request (self.http.post(..).send()).
ApiSent(c, t) == [c EXCEPT !.sent = @ \cup {<<t, c.now>>}, !.pc[t] = "wait"]

\* query: self.semaphore.acquire().
QueryAcquire(t) ==
    /\ client.pc[t] = "idle"
    /\ client.permits > 0
    /\ client' = [client EXCEPT !.permits = @ - 1, !.pc[t] = "gate"]
    /\ UNCHANGED <<dbVars, last, synced, datVars, runVars, requests, racing, net, refreshing, given, parsing, sources, tokens>>

\* query: the write lock of last_request is taken; with less than the interval
\* elapsed the task sleeps holding it, otherwise it stamps the time and goes on.
QueryGate(t) ==
    /\ client.pc[t] = "gate"
    /\ client.gate = NULL
    /\ client' = IF client.now - client.last_request < MinInterval
                  THEN [client EXCEPT !.gate = t, !.pc[t] = "sleep",
                                      !.wake[t] = client.last_request + MinInterval]
                  ELSE [client EXCEPT !.last_request = client.now, !.pc[t] = "token"]
    /\ UNCHANGED <<dbVars, last, synced, datVars, runVars, requests, racing, net, refreshing, given, parsing, sources, tokens>>

\* query: the sleep is over, *last = Instant::now() and the lock is dropped.
QueryStamp(t) ==
    /\ client.pc[t] = "sleep"
    /\ client.wake[t] <= client.now
    /\ client' = [client EXCEPT !.last_request = client.now, !.gate = NULL,
                                !.pc[t] = "token"]
    /\ UNCHANGED <<dbVars, last, synced, datVars, runVars, requests, racing, net, refreshing, given, parsing, sources, tokens>>

\* ensure_token: the look under the read lock; a valid token is returned and
\* the API request goes out.
EnsureTokenRead(t) ==
    /\ client.pc[t] = "token"
    /\ client.tlock = NULL
    /\ client' = IF TokenValid(client.token, client.now)
                  THEN ApiSent(client, t)
                  ELSE [client EXCEPT !.pc[t] = "token_write"]
    /\ UNCHANGED <<dbVars, last, synced, datVars, runVars, requests, racing, net, refreshing, given, parsing, sources, tokens>>

\* ensure_token: the write lock is taken; a token that is valid by now is
\* returned, otherwise the token request is sent with the lock held.
EnsureTokenWrite(t) ==
    /\ client.pc[t] = "token_write"
    /\ client.tlock = NULL
    /\ IF DoubleCheck(client.token, client.now)
       THEN client' = ApiSent(client, t)
       ELSE client' = [client EXCEPT
                          !.tlock = t, !.pc[t] = "token_wait",
                          !.log = Append(@, [ev |-> "request", at |-> client.now,
                                             expires_at |-> 0])]
    /\ UNCHANGED <<dbVars, last, synced, datVars, runVars, requests, racing, net, refreshing, given, parsing, sources, tokens>>

\* ensure_token: the answer to the token request.  ok: the token is stored with
\* its expiry and the API request goes out; otherwise query returns the error
\* and its permit.
EnsureTokenResponse(t, ok) ==
    /\ client.pc[t] = "token_wait"
    /\ client' =
          IF ok
          THEN LET expires_at == client.now + SaturatingSub(ExpiresIn, TokenMargin)
               IN  ApiSent([client EXCEPT
                               !.token = [some |-> TRUE, expires_at |-> expires_at],
                               !.tlock = NULL,
                               !.log = Append(@, [ev |-> "token", at |-> client.now,
                                                  expires_at |-> expires_at])], t)
          ELSE [client EXCEPT !.tlock = NULL, !.pc[t] = "idle", !.permits = @ + 1,
                              !.log = Append(@, [ev |-> "failed", at |-> client.now,
                                                 expires_at |-> 0])]
    /\ UNCHANGED <<dbVars, last, synced, datVars, runVars, requests, racing, net, refreshing, given, parsing, sources, tokens>>

\* query: the answer to the API request; the permit is dropped.
QueryResponse(t) ==
    /\ client.pc[t] = "wait"
    /\ client' = [client EXCEPT !.pc[t] = "idle", !.permits = @ + 1]
    /\ UNCHANGED <<dbVars, last, synced, datVars, runVars, requests, racing, net, refreshing, given, parsing, sources, tokens>>

\* One tick of the client's clock.
ClientTick ==
    /\ client.now < MaxClock
    /\ client' = [client EXCEPT !.now = @ + 1]
    /\ UNCHANGED <<dbVars, last, synced, datVars, runVars, requests, racing, net, refreshing, given, parsing, sources, tokens>>

(***************************************************************************)
(* metadata/mod.rs: enrich_single_rom, the forced refresh of one rom        *)
(***************************************************************************)

\* Calls of enrich_single_rom in one behaviour.
MaxRefreshes == 2

\* The kinds of source cache and their tables.
CacheKinds == {"hasheous", "igdb", "screenscraper"}

\* The kinds of cache that hold a row for rom id.
CachedKinds(id) ==
    (IF id \in DOMAIN hcache THEN {"hasheous"} ELSE {})
    \cup (IF id \in DOMAIN igdb_cache THEN {"igdb"} ELSE {})
    \cup (IF id \in DOMAIN screenscraper_cache THEN {"screenscraper"} ELSE {})

\* The RomRow of a call that has not selected one.
NoRomRow ==
    [ id |-> NoId, name |-> NULL, platform_slug |-> NULL, has_cover |-> FALSE,
      hash_md5 |-> NULL, source_type |-> NULL, source_rom_id |-> NULL,
      screenscraper_id |-> NoId ]

\* No call of enrich_single_rom.  rom, md5, hasheous_name and lb_game are its
\* locals; the rest is history of the latest call: the kinds of cache whose
\* row from before the call is still there (stale), the services it has asked
\* (looked), the artwork rows it has deleted, and the number of calls (runs).
NoRefresh ==
    [ pc |-> "idle", rom |-> NoRomRow, md5 |-> NULL, hasheous_name |-> NULL,
      lb_game |-> NULL, igdb_client |-> FALSE, stale |-> {}, looked |-> {},
      deleted |-> {}, runs |-> 0 ]

\* The row the first query of enrich_single_rom returns for rom id, the link
\* row of the two scalar subqueries (LIMIT 1) being that of source src.
SingleRow(id, src) ==
    [ id |-> id,
      name |-> roms[id].name,
      platform_slug |-> Platforms[roms[id].platform_id].slug,
      has_cover |-> HasCover(artwork, id),
      hash_md5 |-> roms[id].hash_md5,
      source_type |-> SourceType(src),
      source_rom_id |-> links[<<id, src>>].source_rom_id,
      screenscraper_id |-> Platforms[roms[id].platform_id].screenscraper_id ]

\* The command enrich_single_rom up to "DELETE FROM hasheous_cache WHERE
\* rom_id = ?"; igdb_client tells whether the command built a client.
SingleStart(id, src, igdb_client) ==
    /\ refreshing.pc = "idle"
    /\ refreshing.runs < MaxRefreshes
    /\ id \in DOMAIN roms
    /\ <<id, src>> \in DOMAIN links
    /\ hcache' = Without(hcache, {id})
    /\ refreshing' = [NoRefresh EXCEPT !.pc = "hash", !.rom = SingleRow(id, src),
                                       !.igdb_client = igdb_client,
                                       !.stale = CachedKinds(id) \ {"hasheous"},
                                       !.runs = refreshing.runs + 1]
    /\ UNCHANGED <<roms, links, nextRomId, metadata, artwork, library, last, synced,
                   datVars, runVars, requests, racing, net, client, given, parsing, sources, tokens>>

\* Step 1: compute_md5_if_needed.
SingleHash ==
    LET f == refreshing
        r == ComputeMd5IfNeeded(roms, f.rom)
    IN  /\ f.pc = "hash"
        /\ roms' = IF r.store /\ f.rom.id \in DOMAIN roms
                   THEN [roms EXCEPT ![f.rom.id].hash_md5 = r.md5] ELSE roms
        /\ refreshing' = [f EXCEPT !.pc = "hasheous", !.md5 = r.md5]
        /\ UNCHANGED <<links, nextRomId, metadata, artwork, library, hcache, last, synced,
                       datVars, runVars, requests, racing, net, client, given, parsing, sources, tokens>>

\* Step 2: hasheous::lookup_by_md5 (ok: the request succeeds), save_to_cache
\* and the metadata upsert for an answer.
SingleHasheous(ok) ==
    LET f == refreshing
        id == f.rom.id
        found == f.md5 # NULL /\ ok /\ f.md5 \in DOMAIN HasheousWorld
    IN  /\ f.pc = "hasheous"
        /\ hcache' = IF found /\ id \in DOMAIN roms
                     THEN With(hcache, id, HasheousWorld[f.md5]) ELSE hcache
        /\ metadata' = IF found THEN HasheousMetadata(metadata, roms, id, HasheousWorld[f.md5])
                       ELSE metadata
        /\ refreshing' = [f EXCEPT !.pc = "igdb",
                                   !.hasheous_name = IF found THEN HasheousWorld[f.md5].name
                                                     ELSE NULL,
                                   !.looked = IF f.md5 # NULL THEN @ \cup {"hasheous"} ELSE @]
        /\ UNCHANGED <<roms, links, nextRomId, artwork, library, last, synced, datVars,
                       runVars, requests, racing, net, client, given, parsing, sources, tokens>>

\* Step 3, with a client: fetch_games_by_ids for the id of the hasheous_cache
\* row or search_game by name (ok: the request succeeds), and apply_igdb_data.
SingleIgdb(ok) ==
    LET f == refreshing
        id == f.rom.id
        igdb_game_id == CachedIgdbId(hcache, id)
        search_name == IF f.hasheous_name # NULL THEN f.hasheous_name ELSE f.rom.name
        game == IF ~f.igdb_client \/ ~ok THEN NoId
                ELSE IF igdb_game_id # NoId
                THEN IF igdb_game_id \in DOMAIN IgdbWorld THEN igdb_game_id ELSE NoId
                ELSE IgdbSearch(search_name)
        applied == game # NoId /\ id \in DOMAIN roms
    IN  /\ f.pc = "igdb"
        /\ igdb_cache' = IF applied THEN With(igdb_cache, id, game) ELSE igdb_cache
        /\ metadata' = IF game # NoId THEN IgdbMetadata(metadata, roms, id, IgdbWorld[game])
                       ELSE metadata
        /\ artwork' = IF game # NoId
                      THEN AddArtwork(artwork, roms, id, IgdbArtwork(IgdbWorld[game]))
                      ELSE artwork
        /\ refreshing' = [f EXCEPT !.pc = "launchbox",
                                   !.stale = IF applied THEN @ \ {"igdb"} ELSE @,
                                   !.looked = IF f.igdb_client THEN @ \cup {"igdb"} ELSE @]
        /\ UNCHANGED <<roms, links, nextRomId, library, hcache, last, synced, datVars,
                       verifying, cancel, seen, probe, enriching, screenscraper_cache,
                       requests, racing, net, client, given, parsing, sources, tokens>>

\* Step 4: the community database.
SingleLaunchBox ==
    LET f == refreshing
        id == f.rom.id
        lb == FindByName(IF f.hasheous_name # NULL THEN f.hasheous_name ELSE f.rom.name)
    IN  /\ f.pc = "launchbox"
        /\ metadata' = IF lb # NULL
                       THEN LaunchBoxMetadata(metadata, roms, id, LaunchBoxWorld[lb])
                       ELSE metadata
        /\ artwork' = IF lb # NULL /\ ~f.rom.has_cover /\ LaunchBoxWorld[lb].cover # NULL
                      THEN AddArtwork(artwork, roms, id, {<<"cover", LaunchBoxWorld[lb].cover>>})
                      ELSE artwork
        /\ refreshing' = [f EXCEPT !.pc = "screenscraper", !.lb_game = lb]
        /\ UNCHANGED <<roms, links, nextRomId, library, hcache, last, synced, datVars,
                       runVars, requests, racing, net, client, given, parsing, sources, tokens>>

\* Step 5, for a platform with a screenscraper_id: "DELETE FROM
\* screenscraper_cache WHERE rom_id = ?", then lookup_game (ok: the request
\* succeeds); an answer is cached and applied, a miss is cached.
SingleScreenScraper(ok) ==
    LET f == refreshing
        id == f.rom.id
        has_system == f.rom.screenscraper_id # NoId
        hit == has_system /\ ok /\ f.rom.name \in DOMAIN ScreenScraperWorld
        cleared == IF has_system THEN Without(screenscraper_cache, {id})
                   ELSE screenscraper_cache
    IN  /\ f.pc = "screenscraper"
        /\ screenscraper_cache' =
              IF has_system /\ ok /\ id \in DOMAIN roms
              THEN With(cleared, id,
                        IF hit THEN ScreenScraperWorld[f.rom.name].game_id ELSE NoId)
              ELSE cleared
        /\ metadata' = IF hit THEN ScreenScraperMetadata(metadata, roms, id,
                                                         ScreenScraperWorld[f.rom.name])
                       ELSE metadata
        /\ artwork' = IF hit
                      THEN AddArtwork(artwork, roms, id, ScreenScraperWorld[f.rom.name].media)
                      ELSE artwork
        /\ refreshing' = [f EXCEPT !.pc = "cover",
                                   !.stale = IF has_system THEN @ \ {"screenscraper"} ELSE @,
                                   !.looked = IF has_system THEN @ \cup {"screenscraper"}
                                              ELSE @]
        /\ UNCHANGED <<roms, links, nextRomId, library, hcache, last, synced, datVars,
                       verifying, cancel, seen, probe, enriching, igdb_cache,
                       requests, racing, net, client, given, parsing, sources, tokens>>

\* Step 6: the boxart mirror, if the rom has no cover now (ok: the probe gets
\* an answer).
SingleCover(ok) ==
    LET f == refreshing
        id == f.rom.id
        current_has_cover == HasCover(artwork, id)
        name == IF f.hasheous_name # NULL THEN f.hasheous_name ELSE f.rom.name
        url == Probe("Named_Boxarts", name, ok)
    IN  /\ f.pc = "cover"
        /\ artwork' = IF ~current_has_cover /\ url # NULL
                      THEN AddArtwork(artwork, roms, id, {<<"cover", url>>}) ELSE artwork
        /\ refreshing' = [f EXCEPT !.pc = "screenshots",
                                   !.looked = IF ~current_has_cover
                                              THEN @ \cup {"Named_Boxarts"} ELSE @]
        /\ UNCHANGED <<roms, links, nextRomId, metadata, library, hcache, last, synced,
                       datVars, runVars, requests, racing, net, client, given, parsing, sources, tokens>>

\* The last step: "DELETE FROM artwork WHERE rom_id = ? AND art_type =
\* 'screenshot'", then the screenshots of the mirror (oks, okt: the probes get
\* an answer) and of the community database, and the return of Ok(()).
SingleScreenshots(oks, okt) ==
    LET f == refreshing
        id == f.rom.id
        snap_name == IF f.hasheous_name # NULL THEN f.hasheous_name ELSE f.rom.name
        gone == {x \in artwork : x[1] = id /\ x[2] = "screenshot"}
        urls == ({Probe("Named_Snaps", snap_name, oks), Probe("Named_Titles", snap_name, okt)}
                 \ {NULL})
                \cup (IF f.lb_game # NULL THEN LaunchBoxWorld[f.lb_game].screenshots ELSE {})
    IN  /\ f.pc = "screenshots"
        /\ artwork' = AddArtwork(artwork \ gone, roms, id, {<<"screenshot", u>> : u \in urls})
        /\ refreshing' = [f EXCEPT !.pc = "idle", !.deleted = gone,
                                   !.looked = @ \cup {"Named_Snaps", "Named_Titles"}]
        /\ UNCHANGED <<roms, links, nextRomId, metadata, library, hcache, last, synced,
                       datVars, runVars, requests, racing, net, client, given, parsing, sources, tokens>>

(***************************************************************************)
(* parse_dat_file                                                          *)
(***************************************************************************)

\* The longest stream of events read from one file.
MaxEvents == 6

\* The tags of the elements of a DAT; "other" is any tag the parser has no arm
\* for, "name" is the header's name element.
Tags == {"header", "game", "machine", "rom", "name", "other"}

\* The values of a name attribute; "" is an element without one.
GameNames == {"", "g1", "g2"}
RomNames == {"", "r1"}

\* The name attributes an element with the tag can have in the streams read.
NamesOf(tag) ==
    CASE tag \in {"game", "machine"} -> GameNames
      [] tag = "rom" -> RomNames
      [] OTHER -> {""}

\* No call of parse_dat_file.  section, current_element, current_game_name,
\* header and entries are its locals; open (the elements the reader is inside
\* of, innermost last) and elems (the rom elements read inside a game or
\* machine element, with the name of that element) describe the document.
NoParse ==
    [ pc |-> "idle", section |-> "None", current_element |-> "",
      current_game_name |-> "", header |-> "", entries |-> <<>>,
      open |-> <<>>, elems |-> <<>>, n |-> 0 ]

\* The element the reader is directly inside of; the root element datafile
\* outside every other element.
Enclosing(open) ==
    IF open = <<>> THEN [tag |-> "datafile", name |-> ""] ELSE open[Len(open)]

\* The elements a DAT can have directly inside an element: the header and the
\* games in the root, the roms in a game; a rom element that is in the header
\* or outside every game is read as well.  A rom element is empty.
Children(tag) ==
    CASE tag = "datafile" -> {"header", "game", "machine", "rom", "other"}
      [] tag = "header" -> {"name", "other", "rom"}
      [] tag \in {"game", "machine"} -> {"other", "rom"}
      [] OTHER -> {}

\* The rom elements of the document after one more element has been read.
WithElement(p, tag, name) ==
    IF tag = "rom" /\ Enclosing(p.open).tag \in {"game", "machine"}
    THEN Append(p.elems, <<Enclosing(p.open).name, name>>)
    ELSE p.elems

\* std::fs::File::open (ok: the file can be opened).
ParseOpen(ok) ==
    /\ parsing.pc \in {"idle", "done", "error"}
    /\ parsing' = [NoParse EXCEPT !.pc = IF ok THEN "reading" ELSE "error"]
    /\ UNCHANGED <<dbVars, last, synced, datVars, runVars, requests, racing, net, client,
                   refreshing, given, sources, tokens>>

\* Event::Start: the start tag of an element.
ParseStart(tag, name) ==
    LET p == parsing
    IN  /\ p.pc = "reading"
        /\ p.n < MaxEvents
        /\ tag \in Children(Enclosing(p.open).tag)
        /\ parsing' = [p EXCEPT
              !.section = CASE tag = "header" -> "Header"
                            [] tag \in {"game", "machine"} -> "Game"
                            [] OTHER -> @,
              !.current_game_name = IF tag \in {"game", "machine"} THEN name ELSE @,
              !.current_element = tag,
              !.open = Append(@, [tag |-> tag, name |-> name]),
              !.elems = WithElement(p, tag, name),
              !.n = @ + 1]
        /\ UNCHANGED <<dbVars, last, synced, datVars, runVars, requests, racing, net, client,
                       refreshing, given, sources, tokens>>

\* Event::Empty: an empty-element tag.
ParseEmpty(tag, name) ==
    LET p == parsing
    IN  /\ p.pc = "reading"
        /\ p.n < MaxEvents
        /\ tag \in Children(Enclosing(p.open).tag)
        /\ parsing' = [p EXCEPT
              !.entries = IF tag = "rom" /\ p.section = "Game"
                          THEN Append(@, <<p.current_game_name, name>>)
                          ELSE @,
              !.elems = WithElement(p, tag, name),
              !.n = @ + 1]
        /\ UNCHANGED <<dbVars, last, synced, datVars, runVars, requests, racing, net, client,
                       refreshing, given, sources, tokens>>

\* Event::End: the end tag of the innermost open element.
ParseEnd ==
    LET p == parsing
    IN  /\ p.pc = "reading"
        /\ p.open # <<>>
        /\ parsing' = [p EXCEPT
              !.section = IF Enclosing(p.open).tag \in {"header", "game", "machine"}
                          THEN "None" ELSE @,
              !.open = SubSeq(@, 1, Len(@) - 1)]
        /\ UNCHANGED <<dbVars, last, synced, datVars, runVars, requests, racing, net, client,
                       refreshing, given, sources, tokens>>

\* Event::Text: the text of an element that can have text.
ParseText(text) ==
    LET p == parsing
    IN  /\ p.pc = "reading"
        /\ p.n < MaxEvents
        /\ Enclosing(p.open).tag \in {"name", "other"}
        /\ parsing' = [p EXCEPT
              !.header = IF p.section = "Header" /\ p.current_element = "name"
                         THEN text ELSE @,
              !.n = @ + 1]
        /\ UNCHANGED <<dbVars, last, synced, datVars, runVars, requests, racing, net, client,
                       refreshing, given, sources, tokens>>

\* Err(e) from the reader: return Err.
ParseErr ==
    /\ parsing.pc = "reading"
    /\ parsing' = [parsing EXCEPT !.pc = "error"]
    /\ UNCHANGED <<dbVars, last, synced, datVars, runVars, requests, racing, net, client,
                   refreshing, given, sources, tokens>>

\* Event::Eof, after the last element has been closed: return Ok.
ParseEof ==
    /\ parsing.pc = "reading"
    /\ parsing.open = <<>>
    /\ parsing' = [parsing EXCEPT !.pc = "done"]
    /\ UNCHANGED <<dbVars, last, synced, datVars, runVars, requests, racing, net, client,
                   refreshing, given, sources, tokens>>

(***************************************************************************)
(* commands.rs: the map of cancellation tokens                             *)
(***************************************************************************)

\* The commands started in one behaviour.
MaxOps == 3

\* The commands that register a token.
Commands ==
    {"sync_source_1", "sync_source_2", "update_launchbox_db", "fetch_metadata",
     "verify_library"}

\* The CancelKey a command inserts its token under.
KeyOf(cmd) ==
    CASE cmd = "sync_source_1" -> "source_1"
      [] cmd = "sync_source_2" -> "source_2"
      [] cmd \in {"update_launchbox_db", "fetch_metadata"} -> "metadata"
      [] OTHER -> "verification"

\* The empty CancelTokenMap.  map is the HashMap (key -> token), ops the
\* commands started so far, each with the token it created (the token of the
\* k-th command is k), cancelled the tokens cancel() was called on; asked is
\* history: the commands that were running under the key of a cancel command
\* when it was called.
NoMap == [ map |-> <<>>, ops |-> <<>>, cancelled |-> {}, asked |-> {} ]

\* The commands that have registered a token under the key and not returned.
RunningUnder(key) ==
    {o \in DOMAIN tokens.ops : tokens.ops[o].pc = "running" /\ KeyOf(tokens.ops[o].cmd) = key}

\* A command creates its token and inserts a clone under its key: "let cancel
\* = CancellationToken::new(); ...insert(key, cancel.clone())".
CommandStart(cmd) ==
    /\ Len(tokens.ops) < MaxOps
    /\ tokens' = [tokens EXCEPT
          !.ops = Append(@, [cmd |-> cmd, pc |-> "running"]),
          !.map = With(@, KeyOf(cmd), Len(tokens.ops) + 1)]
    /\ UNCHANGED <<dbVars, last, synced, datVars, runVars, requests, racing, net, client,
                   refreshing, given, parsing, sources>>

\* The operation of a command has returned: "...remove(&key); result".
CommandReturn(o) ==
    /\ o \in DOMAIN tokens.ops
    /\ tokens.ops[o].pc = "running"
    /\ tokens' = [tokens EXCEPT
          !.ops[o].pc = IF o \in tokens.cancelled THEN "cancelled" ELSE "done",
          !.map = Without(@, {KeyOf(tokens.ops[o].cmd)})]
    /\ UNCHANGED <<dbVars, last, synced, datVars, runVars, requests, racing, net, client,
                   refreshing, given, parsing, sources>>

\* cancel_sync, cancel_metadata, cancel_verification: "if let Some(token) =
\* ...get(&key) { token.cancel(); }".
CancelCommand(key) ==
    /\ tokens' = [tokens EXCEPT
          !.cancelled = IF key \in DOMAIN tokens.map THEN @ \cup {tokens.map[key]} ELSE @,
          !.asked = @ \cup RunningUnder(key)]
    /\ UNCHANGED <<dbVars, last, synced, datVars, runVars, requests, racing, net, client,
                   refreshing, given, parsing, sources>>

\* Nothing handed to reconcile_duplicates.
NoGiven == <<>>

Init ==
    /\ roms = <<>>
    /\ links = <<>>
    /\ nextRomId = 1
    /\ metadata = <<>>
    /\ artwork = {}
    /\ library = <<>>
    /\ hcache = <<>>
    /\ last = NoCall
    /\ synced = {}
    /\ dat_files = <<>>
    /\ dat_entries = <<>>
    /\ nextDatId = [file |-> 1, entry |-> 1]
    /\ importing = NoImport
    /\ verifying = NoRun
    /\ cancel = NoTokens
    /\ seen = <<>>
    /\ probe = NoProbe
    /\ enriching = NoEnrich
    /\ igdb_cache = <<>>
    /\ screenscraper_cache = <<>>
    /\ requests = {}
    /\ racing = NoRace
    /\ net = NoNet
    /\ client = NoClient
    /\ refreshing = NoRefresh
    /\ given = NoGiven
    /\ parsing = NoParse
    /\ sources = Sources
    /\ tokens = NoMap

\* Hashes a caller of the resolver may supply.
HashArgs == {NULL, "md5_c1", "md5_c2"}

\* The resolver's inputs in SpecDedup: the local files and the remote item that
\* shares its file name with one of them, each with any hash.
DedupArgs ==
    {[LocalArgs(p) EXCEPT !.hash_md5 = h] : p \in LocalPaths, h \in HashArgs}
    \cup {[RommArgs(r) EXCEPT !.hash_md5 = h] : r \in {"r1"}, h \in HashArgs}

\* The resolver under every caller: upserts with and without a hash, the hash
\* command and reconciliation.
NextDedup ==
    \/ \E a \in DedupArgs : Upsert(a)
    \/ \E id \in DOMAIN roms, s \in Sources : ComputeRomHash(id, s)
    \/ Reconcile

SpecDedup == Init /\ [][NextDedup]_vars

\* Upserts for the sources that exist (sync_source loads the row of its
\* source first), the hash command, reconciliation and the removal of a source.
NextRemove ==
    \/ \E a \in DedupArgs : a.source_id \in sources /\ Upsert(a)
    \/ \E id \in DOMAIN roms, s \in Sources : ComputeRomHash(id, s)
    \/ Reconcile
    \/ \E s \in Sources : RemoveSource(s)

SpecRemove == Init /\ [][NextRemove]_vars

\* The program as its callers drive the resolver: the two sync loops, the hash
\* command and reconciliation.
NextSync ==
    \/ \E p \in LocalPaths : SyncLocalItem(p)
    \/ \E r \in RommIds : SyncRommItem(r)
    \/ \E id \in DOMAIN roms, s \in Sources : ComputeRomHash(id, s)
    \/ Reconcile

SpecSync == Init /\ [][NextSync]_vars

\* The resolver's inputs in SpecMerge: one file of one source, reported with
\* every combination of empty and non-empty fields.
MergeArgs ==
    [ platform_id : {1}, name : {"", "n1", "n2"}, file_name : {"a.nes"},
      file_size : {NULL, "s1", "s2"}, regions : {"[]", "r1"},
      hash_md5 : {NULL, "", "md5_c1", "md5_c2"}, source_id : {LocalSource},
      source_rom_id : {"p1"}, source_url : {NULL} ]

NextMerge == \E a \in MergeArgs : Upsert(a)

SpecMerge == Init /\ [][NextMerge]_vars

(***************************************************************************)
(* Specifications of the verification engine                               *)
(***************************************************************************)
\* Rows of dat_entries in SpecLookup.
MaxDatEntries == 2

LookupHashes ==
    [ crc : {NULL, "CRC_c1", "CRC_c2"}, md5 : {NULL, "md5_c1", "md5_c2"},
      sha1 : {NULL, "sha1_c1", "sha1_c2"} ]

LookupEntries ==
    [ dat_file_id : {1}, game_name : {"G1"}, crc32 : {NULL, "CRC_c1", "CRC_c2"},
      md5 : {NULL, "md5_c1", "md5_c2"}, sha1 : {NULL, "sha1_c1", "sha1_c2"},
      status : {NULL} ]

\* One imported DAT file with any entries, and any hashes to look up.
InitLookup ==
    /\ roms = <<>>
    /\ links = <<>>
    /\ nextRomId = 1
    /\ metadata = <<>>
    /\ artwork = {}
    /\ library = <<>>
    /\ hcache = <<>>
    /\ last = NoCall
    /\ synced = {}
    /\ \E n \in 0 .. MaxDatEntries :
          /\ dat_entries \in [1 .. n -> LookupEntries]
          /\ dat_files = << [ platform_slug |-> "nes", dat_type |-> "no-intro",
                              entry_count |-> n ] >>
          /\ nextDatId = [file |-> 2, entry |-> n + 1]
    /\ importing = NoImport
    /\ verifying = NoRun
    /\ cancel = NoTokens
    /\ seen = <<>>
    /\ \E h \in LookupHashes :
          probe = [NoProbe EXCEPT !.crc = h.crc, !.md5 = h.md5, !.sha1 = h.sha1]
    /\ enriching = NoEnrich
    /\ igdb_cache = <<>>
    /\ screenscraper_cache = <<>>
    /\ requests = {}
    /\ racing = NoRace
    /\ net = NoNet
    /\ client = NoClient
    /\ refreshing = NoRefresh
    /\ given = NoGiven
    /\ parsing = NoParse
    /\ sources = Sources
    /\ tokens = NoMap

NextLookup == Lookup

SpecLookup == InitLookup /\ [][NextLookup]_vars

RECURSIVE SyncAll(_, _)
\* The tables after the source items of the sequence have been synced in order.
SyncAll(db, items) ==
    IF items = <<>> THEN db
    ELSE LET s == Head(items)[1]
             x == Head(items)[2]
             r == UpsertRomDeduped(db.roms, db.links, db.next,
                                   IF s = LocalSource THEN LocalArgs(x) ELSE RommArgs(x))
         IN  SyncAll([ roms |-> r.roms, links |-> r.links, next |-> r.next,
                       metadata |-> IF s = RommSource
                                    THEN RommMetadata(db.metadata, r.ret, RommItems[x])
                                    ELSE db.metadata,
                       artwork |-> IF s = RommSource /\ RommItems[x].cover # NULL
                                   THEN db.artwork \cup {<<r.ret, "cover", RommItems[x].cover>>}
                                   ELSE db.artwork ],
                     Tail(items))

\* Both sources synced: a.nes offered by both, b.zip local only, c.nes remote only.
SyncedItems == << <<LocalSource, "p1">>, <<LocalSource, "p2">>, <<RommSource, "r1">>,
                  <<RommSource, "r2">> >>

SyncedDb ==
    SyncAll([ roms |-> <<>>, links |-> <<>>, next |-> 1, metadata |-> <<>>, artwork |-> {} ],
            SyncedItems)

\* The library after a sync of both sources, nothing imported or verified yet.
InitVerify ==
    /\ roms = SyncedDb.roms
    /\ links = SyncedDb.links
    /\ nextRomId = SyncedDb.next
    /\ metadata = SyncedDb.metadata
    /\ artwork = SyncedDb.artwork
    /\ library = <<>>
    /\ hcache = <<>>
    /\ last = [ op |-> "upsert", args |-> RommArgs("r2"), phase |-> 3, ret |-> 3,
                before |-> NoRom, rep |-> FALSE ]
    /\ synced = {<<SyncedItems[k][1], SyncedItems[k][2]>> : k \in DOMAIN SyncedItems}
    /\ dat_files = <<>>
    /\ dat_entries = <<>>
    /\ nextDatId = [file |-> 1, entry |-> 1]
    /\ importing = NoImport
    /\ verifying = NoRun
    /\ cancel = NoTokens
    /\ seen = <<>>
    /\ probe = NoProbe
    /\ enriching = NoEnrich
    /\ igdb_cache = <<>>
    /\ screenscraper_cache = <<>>
    /\ requests = {}
    /\ racing = NoRace
    /\ net = NoNet
    /\ client = NoClient
    /\ refreshing = NoRefresh
    /\ given = NoGiven
    /\ parsing = NoParse
    /\ sources = Sources
    /\ tokens = NoMap

\* DAT imports, verification runs and the hash command on a synced library.
NextVerify ==
    \/ \E d \in DatNames : ImportStart(d)
    \/ ImportDelete
    \/ ImportInsertFile
    \/ ImportChunk
    \/ \E pid \in {NoId, 1}, pick \in [DOMAIN roms -> Sources] : VerifyStart(pid, pick)
    \/ VerifyTop
    \/ VerifyHash
    \/ VerifyClassify
    \/ \E id \in DOMAIN roms, s \in Sources : ComputeRomHash(id, s)

SpecVerify == InitVerify /\ [][NextVerify]_vars

\* Verification runs on a library of one platform while only DAT files of
\* another platform are imported.
NextForeign ==
    \/ \E d \in ForeignDats : ImportStart(d)
    \/ ImportDelete
    \/ ImportInsertFile
    \/ ImportChunk
    \/ \E pid \in {NoId, 1}, pick \in [DOMAIN roms -> Sources] : VerifyStart(pid, pick)
    \/ VerifyTop
    \/ VerifyHash
    \/ VerifyClassify

SpecForeign == InitVerify /\ [][NextForeign]_vars

\* The reference tables after a complete import of DAT file d into empty tables.
Imported(d) ==
    [ dat_files |-> << [ platform_slug |-> DatWorld[d].platform_slug,
                         dat_type |-> DatWorld[d].dat_type,
                         entry_count |-> Len(DatWorld[d].entries) ] >>,
      dat_entries |-> ChunkRows(DatWorld[d].entries, 1, Len(DatWorld[d].entries), 1, 1),
      nextDatId |-> [file |-> 2, entry |-> Len(DatWorld[d].entries) + 1] ]

\* The library after a sync of both sources and the import of one DAT file.
InitBatch ==
    /\ roms = SyncedDb.roms
    /\ links = SyncedDb.links
    /\ nextRomId = SyncedDb.next
    /\ metadata = SyncedDb.metadata
    /\ artwork = SyncedDb.artwork
    /\ library = <<>>
    /\ hcache = <<>>
    /\ last = [ op |-> "upsert", args |-> RommArgs("r2"), phase |-> 3, ret |-> 3,
                before |-> NoRom, rep |-> FALSE ]
    /\ synced = {<<SyncedItems[k][1], SyncedItems[k][2]>> : k \in DOMAIN SyncedItems}
    /\ dat_files = Imported("nes1").dat_files
    /\ dat_entries = Imported("nes1").dat_entries
    /\ nextDatId = Imported("nes1").nextDatId
    /\ importing = NoImport
    /\ verifying = NoRun
    /\ cancel = NoTokens
    /\ seen = <<>>
    /\ probe = NoProbe
    /\ enriching = NoEnrich
    /\ igdb_cache = <<>>
    /\ screenscraper_cache = <<>>
    /\ requests = {}
    /\ racing = NoRace
    /\ net = NoNet
    /\ client = NoClient
    /\ refreshing = NoRefresh
    /\ given = NoGiven
    /\ parsing = NoParse
    /\ sources = Sources
    /\ tokens = NoMap

\* The two cancellable batches over the library, and their cancel commands.
NextBatch ==
    \/ \E pid \in {NoId, 1}, pick \in [DOMAIN roms -> Sources] : VerifyStart(pid, pick)
    \/ VerifyTop
    \/ VerifyHash
    \/ VerifyClassify
    \/ CancelVerification
    \/ \E pid \in {NoId, 1}, pick \in [DOMAIN roms -> Sources] : EnrichStart(pid, pick)
    \/ EnrichPrefetch(TRUE)
    \/ EnrichTop
    \/ EnrichHash
    \/ EnrichHasheous(TRUE)
    \/ EnrichIgdb(TRUE)
    \/ EnrichLaunchBox
    \/ EnrichScreenScraper("answer")
    \/ EnrichCover(TRUE)
    \/ EnrichScreenshots(TRUE, TRUE)
    \/ EnrichMark
    \/ CancelMetadata

SpecBatch == InitBatch /\ [][NextBatch]_vars

\* Batch enrichment runs started in one behaviour of SpecEnrich.
MaxEnrichRuns == 1

\* Runs of the batch enrichment in which any request to a service may fail.
NextEnrich ==
    \/ /\ cancel.created < MaxEnrichRuns
       /\ \E pid \in {NoId, 1}, pick \in [DOMAIN roms -> Sources] : EnrichStart(pid, pick)
    \/ \E ok \in BOOLEAN : EnrichPrefetch(ok)
    \/ EnrichTop
    \/ EnrichHash
    \/ \E ok \in BOOLEAN : EnrichHasheous(ok)
    \/ \E ok \in BOOLEAN : EnrichIgdb(ok)
    \/ EnrichLaunchBox
    \/ \E reply \in SsReplies : EnrichScreenScraper(reply)
    \/ \E ok \in BOOLEAN : EnrichCover(ok)
    \/ \E oks, okt \in BOOLEAN : EnrichScreenshots(oks, okt)
    \/ EnrichMark

SpecEnrich == InitBatch /\ [][NextEnrich]_vars

\* Repeated runs of the batch enrichment in which the search of the game
\* database may fail.
NextRerun ==
    \/ \E pid \in {NoId, 1}, pick \in [DOMAIN roms -> Sources] : EnrichStart(pid, pick)
    \/ EnrichPrefetch(TRUE)
    \/ EnrichTop
    \/ EnrichHash
    \/ EnrichHasheous(TRUE)
    \/ \E ok \in BOOLEAN : EnrichIgdb(ok)
    \/ EnrichLaunchBox
    \/ EnrichScreenScraper("answer")
    \/ EnrichCover(TRUE)
    \/ EnrichScreenshots(TRUE, TRUE)
    \/ EnrichMark

SpecRerun == InitBatch /\ [][NextRerun]_vars

\* What the two sync tasks may hand to the resolver: each item of its source,
\* without a hash (as both sync loops call it) or with the MD5 of its content.
RaceArgs ==
    {[LocalArgs(p) EXCEPT !.hash_md5 = h] : p \in LocalPaths, h \in {NULL, "md5_c1"}}
    \cup {[RommArgs(r) EXCEPT !.hash_md5 = h] : r \in RommIds, h \in {NULL, "md5_c1"}}

\* Two sources syncing at the same time into an empty library: one call of the
\* resolver per sync task, their statements interleaved.
NextRace ==
    \/ \E s \in Sources, a \in RaceArgs : RaceCall(s, a)
    \/ \E s \in Sources : RaceFindHash(s)
    \/ \E s \in Sources : RaceFindFile(s)
    \/ \E s \in Sources : RaceUpdate(s)
    \/ \E s \in Sources : RaceInsert(s)
    \/ \E s \in Sources : RaceLink(s)

SpecRace == Init /\ [][NextRace]_vars

\* A batch enrichment and a single-entry refresh running at the same time, as
\* far as the requests to the screenshot database go.
NextRate ==
    \/ \E c \in Callers : RateCall(c)
    \/ \E c \in Callers : RateSend(c)
    \/ RateTick

SpecRate == InitBatch /\ [][NextRate]_vars

\* Two tasks calling query on one client at the same time.
NextClient ==
    \/ \E t \in Tasks : QueryAcquire(t)
    \/ \E t \in Tasks : QueryGate(t)
    \/ \E t \in Tasks : QueryStamp(t)
    \/ \E t \in Tasks : EnsureTokenRead(t)
    \/ \E t \in Tasks : EnsureTokenWrite(t)
    \/ \E t \in Tasks, ok \in BOOLEAN : EnsureTokenResponse(t, ok)
    \/ \E t \in Tasks : QueryResponse(t)
    \/ ClientTick

SpecClient == InitBatch /\ [][NextClient]_vars

\* Roms in a library handed to reconcile_duplicates.
MaxGiven == 3

\* The MD5 a rom of such a library may have.
GivenHashes == {NULL, "", "md5_c1", "md5_c2"}

\* What a rom of such a library may own: links to sources, a metadata row,
\* artwork, library rows (favorite, play stats) and a row in each cache.
GivenProfiles ==
    { [ sources |-> {LocalSource}, metadata |-> FALSE, art |-> {}, library |-> {},
        hasheous |-> FALSE, igdb |-> FALSE, screenscraper |-> FALSE ],
      [ sources |-> {RommSource}, metadata |-> TRUE, art |-> {<<"cover", "u1">>},
        library |-> {RommSource}, hasheous |-> TRUE, igdb |-> TRUE, screenscraper |-> TRUE ],
      [ sources |-> Sources, metadata |-> TRUE,
        art |-> {<<"cover", "u1">>, <<"screenshot", "u2">>}, library |-> {LocalSource},
        hasheous |-> FALSE, igdb |-> FALSE, screenscraper |-> FALSE ],
      [ sources |-> {LocalSource}, metadata |-> FALSE, art |-> {<<"screenshot", "u2">>},
        library |-> {}, hasheous |-> FALSE, igdb |-> TRUE, screenscraper |-> FALSE ] }

\* A value that tells the rows of rom i from those of the other roms.
Tag(i) == << "t1", "t2", "t3", "t4" >>[i]

\* The library in which rom i has the hash h[i] and owns what pr[i] says.
GivenDb(h, pr) ==
    LET ids == 1 .. MaxGiven
    IN  [ roms |-> [i \in ids |->
                      [NewRom([NoArgs EXCEPT !.platform_id = 1, !.name = Tag(i),
                                             !.file_name = Tag(i), !.regions = "[]"])
                         EXCEPT !.hash_md5 = h[i]]],
          links |-> [k \in {k \in ids \X Sources : k[2] \in pr[k[1]].sources} |->
                       [ source_rom_id |-> Tag(k[1]), source_url |-> NULL,
                         file_name |-> Tag(k[1]), hash_md5 |-> h[k[1]] ]],
          metadata |-> [i \in {j \in ids : pr[j].metadata} |->
                          [NewMetadata EXCEPT !.description = Tag(i)]],
          artwork |-> {y \in ids \X {"cover", "screenshot"} \X {"u1", "u2"} :
                         <<y[2], y[3]>> \in pr[y[1]].art},
          library |-> [k \in {k \in ids \X Sources : k[2] \in pr[k[1]].library} |->
                         [ favorite |-> Tag(k[1]) ]],
          hcache |-> [i \in {j \in ids : pr[j].hasheous} |->
                        [HasheousWorld.md5_c1 EXCEPT !.name = Tag(i)]],
          igdb_cache |-> [i \in {j \in ids : pr[j].igdb} |-> 7],
          screenscraper_cache |-> [i \in {j \in ids : pr[j].screenscraper} |-> 9] ]

\* A library of MaxGiven roms with any hashes and belongings, nothing running.
InitReconcile ==
    \E h \in [1 .. MaxGiven -> GivenHashes], pr \in [1 .. MaxGiven -> GivenProfiles] :
        /\ given = GivenDb(h, pr)
        /\ parsing = NoParse
        /\ sources = Sources
        /\ tokens = NoMap
        /\ roms = given.roms
        /\ links = given.links
        /\ nextRomId = MaxGiven + 1
        /\ metadata = given.metadata
        /\ artwork = given.artwork
        /\ library = given.library
        /\ hcache = given.hcache
        /\ igdb_cache = given.igdb_cache
        /\ screenscraper_cache = given.screenscraper_cache
        /\ last = NoCall
        /\ synced = {}
        /\ dat_files = <<>>
        /\ dat_entries = <<>>
        /\ nextDatId = [file |-> 1, entry |-> 1]
        /\ importing = NoImport
        /\ verifying = NoRun
        /\ cancel = NoTokens
        /\ seen = <<>>
        /\ probe = NoProbe
        /\ enriching = NoEnrich
        /\ requests = {}
        /\ racing = NoRace
        /\ net = NoNet
        /\ client = NoClient
        /\ refreshing = NoRefresh

\* The command deduplicate_roms on such a library, once or again.
NextReconcile == Reconcile

SpecReconcile == InitReconcile /\ [][NextReconcile]_vars

\* One batch enrichment whose requests all succeed, and forced refreshes of
\* single roms in which any request may fail, one command at a time.
NextRefresh ==
    \/ /\ cancel.created < MaxEnrichRuns
       /\ refreshing.pc = "idle"
       /\ \E pick \in [DOMAIN roms -> Sources] : EnrichStart(NoId, pick)
    \/ EnrichPrefetch(TRUE)
    \/ EnrichTop
    \/ EnrichHash
    \/ EnrichHasheous(TRUE)
    \/ EnrichIgdb(TRUE)
    \/ EnrichLaunchBox
    \/ EnrichScreenScraper("answer")
    \/ EnrichCover(TRUE)
    \/ EnrichScreenshots(TRUE, TRUE)
    \/ EnrichMark
    \/ /\ enriching.pc = "idle"
       /\ \E id \in DOMAIN roms, src \in Sources, c \in BOOLEAN : SingleStart(id, src, c)
    \/ SingleHash
    \/ \E ok \in BOOLEAN : SingleHasheous(ok)
    \/ \E ok \in BOOLEAN : SingleIgdb(ok)
    \/ SingleLaunchBox
    \/ \E ok \in BOOLEAN : SingleScreenScraper(ok)
    \/ \E ok \in BOOLEAN : SingleCover(ok)
    \/ \E oks, okt \in BOOLEAN : SingleScreenshots(oks, okt)

SpecRefresh == InitBatch /\ [][NextRefresh]_vars

\* The keys under which a cancellation token can be registered (Source(i64)
\* for the two sources, Metadata, Verification): there is none for an import.
CancelKeys == {"source_1", "source_2", "metadata", "verification"}

\* The dat_files id of the import in progress: the one it inserted, or the
\* one it is about to insert.
ImportFileId == IF importing.dat_file_id # NoId THEN importing.dat_file_id ELSE nextDatId.file

\* cancel_sync, cancel_metadata or cancel_verification called while
\* import_dat_file runs and no other run has registered a token: the map has
\* no entry for the key and the command returns Ok(()).
CancelDuringImport(key) ==
    /\ importing.pc # "idle"
    /\ verifying.pc = "idle"
    /\ enriching.pc = "idle"
    /\ last' = [NoCall EXCEPT !.op = "cancel", !.args.name = key, !.ret = ImportFileId]
    /\ UNCHANGED <<dbVars, synced, datVars, runVars, auxVars>>

\* DAT imports and the cancel commands.
NextImport ==
    \/ \E d \in DatNames : ImportStart(d)
    \/ ImportDelete
    \/ ImportInsertFile
    \/ ImportChunk
    \/ \E d \in DatNames : ImportUnparsed(d)
    \/ \E key \in CancelKeys : CancelDuringImport(key)

SpecImport == InitVerify /\ [][NextImport]_vars

\* The texts of the elements of the header.
Texts == {"Nintendo - NES"}

\* parse_dat_file over the streams of at most MaxEvents events.
NextParse ==
    \/ \E ok \in BOOLEAN : ParseOpen(ok)
    \/ \E tag \in Tags : \E name \in NamesOf(tag) : ParseStart(tag, name)
    \/ \E tag \in Tags : \E name \in NamesOf(tag) : ParseEmpty(tag, name)
    \/ ParseEnd
    \/ \E text \in Texts : ParseText(text)
    \/ ParseErr
    \/ ParseEof

SpecParse == InitVerify /\ [][NextParse]_vars

\* The commands that register a token, their returns and the cancel commands,
\* in any order.
NextCancel ==
    \/ \E cmd \in Commands : CommandStart(cmd)
    \/ \E o \in 1 .. MaxOps : CommandReturn(o)
    \/ \E key \in CancelKeys : CancelCommand(key)

SpecCancel == InitVerify /\ [][NextCancel]_vars

(***************************************************************************)
(* Claims about the identity resolver                                      *)
(***************************************************************************)
Empty(v) == v \in {NULL, "", "[]"}

\* Rows of platform p that carry hash h.
WithHash(p, h) == {i \in DOMAIN roms : roms[i].platform_id = p /\ roms[i].hash_md5 = h}

\* C1: in the state reconcile_duplicates leaves behind, no two rows of roms
\* share a platform and a non-empty MD5.
C1_OnePerHashAfterReconcile ==
    last.op = "reconcile" =>
        \A i, j \in DOMAIN roms :
            (i # j /\ roms[i].platform_id = roms[j].platform_id
                   /\ roms[i].hash_md5 \notin {NULL, ""})
            => roms[i].hash_md5 # roms[j].hash_md5

\* C1 witness: a reconciliation that merged a group of three.
C1_Witness == last.op = "reconcile" /\ last.ret = 2 /\ Cardinality(DOMAIN roms) = 1

\* C2 (as claimed): once a local file and a remote item with the same platform
\* and the same content have both been synced, exactly one row carries that
\* (platform, MD5) and exactly two links point to it.
C2_TwoSourcesOneEntry ==
    \A p \in LocalPaths, r \in RommIds :
        ( /\ last.op = "upsert"
          /\ <<LocalSource, p>> \in synced
          /\ <<RommSource, r>> \in synced
          /\ LocalFiles[p].platform = RommItems[r].platform
          /\ Md5Of(LocalFiles[p].first) = Md5Of(RommItems[r].content) )
        => /\ Cardinality(WithHash(LocalFiles[p].platform, Md5Of(LocalFiles[p].first))) = 1
           /\ \A i \in WithHash(LocalFiles[p].platform, Md5Of(LocalFiles[p].first)) :
                  Cardinality(LinksTo(i)) = 2

C4_NoErase ==
    (last.op = "upsert" /\ last.phase = 2) =>
        /\ ~Empty(last.before.name) => ~Empty(roms[last.ret].name)
        /\ ~Empty(last.before.file_size) => ~Empty(roms[last.ret].file_size)
        /\ ~Empty(last.before.regions) => ~Empty(roms[last.ret].regions)
        /\ ~Empty(last.before.hash_md5) => ~Empty(roms[last.ret].hash_md5)

\* C5: a call that supplies a non-empty hash carried by some row of the
\* platform returns the id of such a row, inserts nothing, changes no row of
\* roms and touches no link but the one of (returned row, source).
C5_HashMatchOnlyLinks ==
    [][ ( /\ last'.op = "upsert"
          /\ last'.args.hash_md5 \notin {NULL, ""}
          /\ WithHash(last'.args.platform_id, last'.args.hash_md5) # {} )
        => /\ roms' = roms
           /\ nextRomId' = nextRomId
           /\ last'.ret \in WithHash(last'.args.platform_id, last'.args.hash_md5)
           /\ <<last'.ret, last'.args.source_id>> \in DOMAIN links'
           /\ DOMAIN links' = DOMAIN links \cup {<<last'.ret, last'.args.source_id>>}
           /\ \A k \in DOMAIN links :
                  k # <<last'.ret, last'.args.source_id>> => links'[k] = links[k]
      ]_vars

\* C5 witness: the hash matched one row although another row of the platform
\* has the file name of the call.
C5_Witness ==
    /\ last.op = "upsert" /\ last.phase = 1
    /\ \E j \in DOMAIN roms :
          /\ j # last.ret
          /\ roms[j].platform_id = last.args.platform_id
          /\ roms[j].file_name = last.args.file_name

\* C6: an upsert that repeats the arguments of the call before it returns
\* the same id and changes neither roms nor source_roms.
C6_RepeatIsNoOp ==
    [][ (last.op = "upsert" /\ last'.op = "upsert" /\ last'.args = last.args)
        => /\ roms' = roms
           /\ links' = links
           /\ nextRomId' = nextRomId
           /\ last'.ret = last.ret
      ]_vars

\* C6 witness: a repeated call that was decided by the hash while two rows exist.
C6_Witness ==
    /\ last.op = "upsert" /\ last.rep
    /\ last.phase = 1
    /\ Cardinality(DOMAIN roms) = 2

(***************************************************************************)
(* Claims about the verification engine                                    *)
(***************************************************************************)
\* Rows of dat_entries that agree with the probe on the given kind of hash.
SameSha1 == {e \in DOMAIN dat_entries : probe.sha1 # NULL /\ dat_entries[e].sha1 = probe.sha1}

SameMd5 == {e \in DOMAIN dat_entries : probe.md5 # NULL /\ dat_entries[e].md5 = probe.md5}

SameCrc32 == {e \in DOMAIN dat_entries : probe.crc # NULL /\ dat_entries[e].crc32 = probe.crc}

\* C7: find_dat_match returns an entry with the supplied SHA1 whenever one
\* exists; otherwise one with the supplied MD5 whenever one exists; otherwise
\* one with the supplied CRC32 whenever one exists; it returns none only if no
\* supplied hash is carried by any entry.
C7_LookupPrecedence ==
    probe.called =>
        /\ SameSha1 # {} => probe.ret \in SameSha1
        /\ (SameSha1 = {} /\ SameMd5 # {}) => probe.ret \in SameMd5
        /\ (SameSha1 = {} /\ SameMd5 = {} /\ SameCrc32 # {}) => probe.ret \in SameCrc32
        /\ probe.ret = NoId <=> (SameSha1 = {} /\ SameMd5 = {} /\ SameCrc32 = {})

\* C7 witness: the entry returned carries the supplied SHA1 but another CRC32,
\* while an entry before it carries the supplied MD5 and CRC32.
C7_Witness ==
    /\ probe.called
    /\ probe.ret = 2
    /\ probe.ret \in SameSha1
    /\ probe.ret \notin SameCrc32
    /\ 1 \in SameMd5 \cap SameCrc32
    /\ 1 \notin SameSha1

\* Rows of dat_entries that carry one of the hashes the running item is looked
\* up with.
Matching ==
    {e \in DOMAIN dat_entries :
        \/ verifying.sha1 # NULL /\ dat_entries[e].sha1 = verifying.sha1
        \/ verifying.md5 # NULL /\ dat_entries[e].md5 = verifying.md5
        \/ verifying.crc # NULL /\ dat_entries[e].crc32 = verifying.crc}

\* C8: the step that classifies an item stores "unverified" when no reference
\* entry carries one of its hashes; otherwise it stores the id and the game
\* name of an entry that does, with "bad_dump" when the dump status of that
\* entry is "baddump" and "verified" for any other dump status or none.
C8_StatusFromMatch ==
    [][ ( /\ verifying.pc = "lookup"
          /\ verifying'.pc = "top"
          /\ verifying.rows[verifying.i].rom_id \in DOMAIN roms )
        => LET after == roms'[verifying.rows[verifying.i].rom_id]
           IN  IF Matching = {}
               THEN after.verification_status = "unverified"
               ELSE /\ after.dat_entry_id \in Matching
                    /\ after.dat_game_name = dat_entries[after.dat_entry_id].game_name
                    /\ after.verification_status =
                          IF dat_entries[after.dat_entry_id].status = "baddump"
                          THEN "bad_dump" ELSE "verified"
      ]_vars

\* C8 witness: a run has just classified one rom as verified against an entry
\* whose dump status is neither empty nor "baddump", while another rom is a
\* bad dump and points to its entry.
C8_Witness ==
    /\ verifying.pc = "top"
    /\ \E k \in verifying.done :
          LET rom == roms[verifying.rows[k].rom_id]
          IN  /\ rom.verification_status = "verified"
              /\ rom.dat_entry_id \in DOMAIN dat_entries
              /\ dat_entries[rom.dat_entry_id].status = "verified"
              /\ rom.dat_game_name = "G3"
    /\ \E id \in DOMAIN roms :
          /\ roms[id].verification_status = "bad_dump"
          /\ roms[id].dat_game_name = "G2"

\* C9: while a rom is verified and neither its stored hashes nor dat_entries
\* differ from what its last classification saw, no step that leaves both
\* unchanged alters its status or its matched game name.
C9_VerifiedIsStable ==
    [][ \A id \in DOMAIN roms :
          ( /\ roms[id].verification_status = "verified"
            /\ id \in DOMAIN seen
            /\ seen[id].hashes = StoredHashes(roms[id])
            /\ seen[id].entries = dat_entries
            /\ dat_entries' = dat_entries
            /\ id \in DOMAIN roms'
            /\ StoredHashes(roms'[id]) = StoredHashes(roms[id]) )
          => /\ roms'[id].verification_status = "verified"
             /\ roms'[id].dat_game_name = roms[id].dat_game_name
      ]_vars

\* C9 witness: a verified rom has been classified again with the same stored
\* hashes and the same reference entries.
C9_Witness ==
    \E id \in DOMAIN seen :
        /\ seen[id].again
        /\ id \in DOMAIN roms
        /\ roms[id].verification_status = "verified"
        /\ roms[id].dat_game_name = "G3"

\* Claims about cancelling a batch.

\* The items of a run that are at most k.
UpTo(k) == 1..k

\* A run cancelled while its item k was in progress writes for no later item,
\* and once it has returned it has returned Ok with exactly the items 1..k
\* processed to their last step.
CancelledAt(run) ==
    run.cancelAt > 0
    => /\ run.written \subseteq UpTo(run.cancelAt)
       /\ run.done \subseteq UpTo(run.cancelAt)
       /\ run.pc = "idle" => /\ run.ret = "ok"
                             /\ run.done = UpTo(run.cancelAt)

\* C10: a verification batch or an enrichment batch cancelled during item k
\* completes item k, returns without error and writes for none of the items
\* after k; every item it wrote for went through all its steps, which for
\* verification counts it in the statistics and for enrichment leaves the rom
\* marked as enriched.
C10_CancelBetweenItems ==
    /\ CancelledAt(verifying)
    /\ CancelledAt(enriching)
    /\ verifying.pc \in {"idle", "top"} =>
          /\ verifying.written \subseteq verifying.done
          /\ verifying.stats.verified + verifying.stats.bad_dump
                + verifying.stats.unverified + verifying.stats.not_checked
             = Cardinality(verifying.done)
    /\ enriching.pc \in {"idle", "top"} =>
          /\ enriching.written \subseteq enriching.done
          /\ \A k \in enriching.done :
                /\ enriching.rows[k].id \in DOMAIN metadata
                /\ metadata[enriching.rows[k].id].metadata_fetched_at # NULL

\* C10 witness: a verification batch and an enrichment batch of several items
\* have both returned after a cancellation during an item that was not the
\* last, and both wrote for that item.
C10_Witness ==
    /\ verifying.pc = "idle"
    /\ verifying.cancelAt > 0
    /\ verifying.cancelAt < Len(verifying.rows)
    /\ verifying.cancelAt \in verifying.written
    /\ enriching.pc = "idle"
    /\ enriching.cancelAt > 0
    /\ enriching.cancelAt < Len(enriching.rows)
    /\ enriching.cancelAt \in enriching.written

\* Claims about the enrichment pipeline.

\* The urls of the files of a category of the boxart mirror.
MirrorUrls(category) ==
    {LibretroWorld[category][n] : n \in DOMAIN LibretroWorld[category]}

\* What a request that brought a result has left in the database.
Applied(r) ==
    LET id == r[2]
    IN  CASE r[1] = "hasheous" ->
                /\ id \in DOMAIN hcache
                /\ id \in DOMAIN metadata
                /\ metadata[id].description # NULL
                /\ metadata[id].release_date # NULL
          [] r[1] = "igdb" ->
                /\ id \in DOMAIN igdb_cache
                /\ id \in DOMAIN metadata
                /\ metadata[id].igdb_id = igdb_cache[id]
                /\ IgdbArtwork(IgdbWorld[igdb_cache[id]])
                      \subseteq {<<x[2], x[3]>> : x \in {y \in artwork : y[1] = id}}
          [] r[1] = "screenscraper" ->
                /\ id \in DOMAIN screenscraper_cache
                /\ screenscraper_cache[id] # NoId
                /\ id \in DOMAIN metadata
                /\ ScreenScraperWorld[roms[id].name].media
                      \subseteq {<<x[2], x[3]>> : x \in {y \in artwork : y[1] = id}}
          [] r[1] = "Named_Boxarts" ->
                \E u \in MirrorUrls(r[1]) : <<id, "cover", u>> \in artwork
          [] OTHER ->
                \E u \in MirrorUrls(r[1]) : <<id, "screenshot", u>> \in artwork

C12_FirstWriterWins ==
    [][ \A id \in DOMAIN metadata \cap DOMAIN metadata' :
          /\ metadata[id].publisher # NULL
                => metadata'[id].publisher = metadata[id].publisher
          /\ metadata[id].developer # NULL
                => metadata'[id].developer = metadata[id].developer
          /\ metadata[id].release_date # NULL
                => metadata'[id].release_date = metadata[id].release_date
      ]_vars

\* The value of the game database where both databases have one.
Preferred(igdb_value, launchbox_value, stored) ==
    (igdb_value \notin {NULL, "[]"} /\ launchbox_value \notin {NULL, "[]"})
    => stored = igdb_value

\* C13: when the last step of a rom is done and both the game database (at
\* any time) and the community database (in this run) have supplied a game for
\* it, the stored description, rating and genres are those of the game
\* database wherever both games have one.
C13_GameDatabaseWins ==
    [][ ( /\ enriching.pc = "mark"
          /\ enriching'.pc = "top"
          /\ enriching.lb_game # NULL
          /\ enriching.rows[enriching.i].id \in DOMAIN igdb_cache
          /\ enriching.rows[enriching.i].id \in DOMAIN metadata' )
        => LET id == enriching.rows[enriching.i].id
               game == IgdbWorld[igdb_cache[id]]
               lb == LaunchBoxWorld[enriching.lb_game]
           IN  /\ Preferred(game.description, lb.overview, metadata'[id].description)
               /\ Preferred(game.rating, lb.community_rating, metadata'[id].rating)
               /\ Preferred(game.genres, lb.genres, metadata'[id].genres)
      ]_vars

\* C14: a genre list or theme list that is not empty is not changed by any
\* later write.
C14_ListsFilledOnce ==
    [][ \A id \in DOMAIN metadata \cap DOMAIN metadata' :
          /\ metadata[id].genres # "[]" => metadata'[id].genres = metadata[id].genres
          /\ metadata[id].themes # "[]" => metadata'[id].themes = metadata[id].themes
      ]_vars

\* C15: the hash lookup service is not asked about a rom again once it has
\* answered that it has no match for it.
C15_MissIsRemembered ==
    \A r \in requests : ~(r[1] = "hasheous" /\ r[3] = "repeat")

\* C16: a metadata_fetched_at that was set when a run started has the same
\* value throughout the run and after it.
C16_FirstEnrichedKept ==
    \A id \in DOMAIN enriching.stamps \cap DOMAIN metadata :
        enriching.stamps[id] # NULL
        => metadata[id].metadata_fetched_at = enriching.stamps[id]


(***************************************************************************)
(* Claims about concurrent operations                                      *)
(***************************************************************************)
\* The entries stored for the reference set of a platform and a type, without
\* their rowids and file ids.
StoredSet(platform_slug, dat_type) ==
    { [ game_name |-> dat_entries[i].game_name, crc32 |-> dat_entries[i].crc32,
        md5 |-> dat_entries[i].md5, sha1 |-> dat_entries[i].sha1,
        status |-> dat_entries[i].status ] :
      i \in { j \in DOMAIN dat_entries :
                /\ dat_entries[j].dat_file_id \in DOMAIN dat_files
                /\ dat_files[dat_entries[j].dat_file_id].platform_slug = platform_slug
                /\ dat_files[dat_entries[j].dat_file_id].dat_type = dat_type } }

\* All the entries of the parsed DAT file d.
CompleteSet(d) == { DatWorld[d].entries[k] : k \in DOMAIN DatWorld[d].entries }

\* C17: replacing the reference set of a (platform, dat_type) key is atomic:
\* in every state another operation can observe, the set stored for the key
\* is the complete set of one imported file (or empty while no file was ever
\* imported for it), never missing and never partial.
C17_ReplaceIsAtomic ==
    \A d \in DatNames :
        LET stored == StoredSet(DatWorld[d].platform_slug, DatWorld[d].dat_type)
        IN  \/ nextDatId.file = 1 /\ stored = {}
            \/ \E c \in DatNames :
                   /\ DatWorld[c].platform_slug = DatWorld[d].platform_slug
                   /\ DatWorld[c].dat_type = DatWorld[d].dat_type
                   /\ stored = CompleteSet(c)


\* C18: for any interleaving of two concurrently running upserts that carry
\* the same (platform, non-empty hash) or the same (platform, filename),
\* exactly one entry results, with one link per source.
C18_ConcurrentUpsertsOneEntry ==
    LET a == racing[LocalSource].args
        b == racing[RommSource].args
    IN  ( /\ racing[LocalSource].pc = "done"
          /\ racing[RommSource].pc = "done"
          /\ a.platform_id = b.platform_id
          /\ \/ a.hash_md5 # NULL /\ a.hash_md5 # "" /\ a.hash_md5 = b.hash_md5
             \/ a.file_name = b.file_name )
        => /\ Cardinality(DOMAIN roms) = 1
           /\ \A i \in DOMAIN roms : DOMAIN links = {<<i, LocalSource>>, <<i, RommSource>>}


\* The byte contents a file of the model can have.
Contents == {"c1", "c2", "z1"}

\* C19: for every interleaving of a batch enrichment run and a verification
\* run over the same entry, the stored hashes are those of a sequential
\* execution of the two runs: the stored CRC32, MD5 and SHA1 of an entry are
\* always digests of the same byte content.
C19_HashesOfOneContent ==
    \A id \in DOMAIN roms :
        \E c \in Contents :
            /\ roms[id].hash_crc32 \in {NULL, Crc32Of(c)}
            /\ roms[id].hash_md5 \in {NULL, Md5Of(c)}
            /\ roms[id].hash_sha1 \in {NULL, Sha1Of(c)}


\* C20: across all concurrent callers in the process, any two requests sent
\* to the screenshot/cover database are at least one second apart.
C20_OneRequestPerSecond ==
    \A x \in net.sent, y \in net.sent :
        x # y => \/ x[2] - y[2] >= TicksPerSecond
                 \/ y[2] - x[2] >= TicksPerSecond


\* C21: under any interleaving of concurrent callers of the game-database
\* client, any two API requests are sent at least the minimum interval apart,
\* also when a token is acquired between the rate gate and the request.
C21_MinimumInterval ==
    \A x \in client.sent, y \in client.sent :
        x # y => \/ x[2] - y[2] >= MinInterval
                 \/ y[2] - x[2] >= MinInterval


\* C29: the game-database client requests a new token only when no token is
\* cached or the time is at or past the expiry it computed for the cached one
\* (the time it was acquired + expires_in - 60 s): however many requests run
\* at the same time, no token request follows a token within its lifetime,
\* and no second token request is sent while one is awaiting its answer.
C29_OneTokenPerLifetime ==
    /\ \A i \in DOMAIN client.log, j \in DOMAIN client.log :
           ( /\ i < j
             /\ client.log[i].ev = "token"
             /\ client.log[j].ev = "request" )
           => client.log[j].at >= client.log[i].at + ExpiresIn - TokenMargin
    /\ \A i \in DOMAIN client.log :
           (i < Len(client.log) /\ client.log[i].ev = "request")
           => client.log[i + 1].ev # "request"

\* A token was acquired, both tasks sent API requests with it during its
\* lifetime, and after its expiry a new token was requested.
C29_Witness ==
    \E i \in DOMAIN client.log, j \in DOMAIN client.log :
        /\ i < j
        /\ client.log[i].ev = "token"
        /\ client.log[j].ev = "request"
        /\ \A t \in Tasks :
               \E x \in client.sent :
                   /\ x[1] = t
                   /\ x[2] >= client.log[i].at
                   /\ x[2] < client.log[i].expires_at


(***************************************************************************)
(* Claims about reconcile_duplicates                                       *)
(***************************************************************************)

\* The members of the duplicate group of rom i in the library as given: the
\* roms of its platform with its hash, or i alone when it has no hash.
GivenGroup(i) ==
    IF given.roms[i].hash_md5 \in {NULL, ""}
    THEN {i}
    ELSE {j \in DOMAIN given.roms :
            /\ given.roms[j].platform_id = given.roms[i].platform_id
            /\ given.roms[j].hash_md5 = given.roms[i].hash_md5}

\* The lowest id of each group.
Keepers == {Min(GivenGroup(i)) : i \in DOMAIN given.roms}

\* The members of the group of keeper k that are not k.
Losers(k) == GivenGroup(k) \ {k}

\* The row of key in table now is the row it was in table before.
Kept(before, now, key) == key \in DOMAIN now /\ now[key] = before[key]

\* C22: for each duplicate group reconcile keeps exactly the member with the
\* lowest id and deletes all the others; the keeper's own fields and every
\* row the keeper already had (source links, metadata, artwork,
\* favorite/play-stat, cache) are unchanged: on a conflict the keeper's row
\* wins.
C22_KeeperWins ==
    last.op = "reconcile" =>
        /\ DOMAIN roms = Keepers
        /\ \A k \in Keepers :
               /\ roms[k] = given.roms[k]
               /\ \A key \in DOMAIN given.links : key[1] = k => Kept(given.links, links, key)
               /\ \A key \in DOMAIN given.library :
                      key[1] = k => Kept(given.library, library, key)
               /\ k \in DOMAIN given.metadata => Kept(given.metadata, metadata, k)
               /\ k \in DOMAIN given.hcache => Kept(given.hcache, hcache, k)
               /\ k \in DOMAIN given.igdb_cache => Kept(given.igdb_cache, igdb_cache, k)
               /\ k \in DOMAIN given.screenscraper_cache
                      => Kept(given.screenscraper_cache, screenscraper_cache, k)
               /\ \A x \in given.artwork : x[1] = k => x \in artwork

\* Reconcile ran on a group of three whose keeper and a loser each had a
\* metadata row, a reference-hash cache row, and a link and a library row
\* for the same source.
C22_Witness ==
    /\ last.op = "reconcile"
    /\ \E k \in Keepers :
           /\ Cardinality(GivenGroup(k)) = 3
           /\ \E d \in Losers(k) :
                  /\ {k, d} \subseteq DOMAIN given.metadata
                  /\ {k, d} \subseteq DOMAIN given.hcache
                  /\ \E src \in Sources :
                         /\ {<<k, src>>, <<d, src>>} \subseteq DOMAIN given.links
                         /\ {<<k, src>>, <<d, src>>} \subseteq DOMAIN given.library

\* C23: reconcile loses nothing that belonged only to a loser: afterwards the
\* keeper has a link to every source that was linked to any member of the
\* group, every artwork triple of any member, and the metadata and
\* favorite/play-stat rows of a loser wherever the keeper had none.
C23_NothingLost ==
    last.op = "reconcile" =>
        \A k \in Keepers :
            /\ \A key \in DOMAIN given.links :
                   key[1] \in GivenGroup(k) => <<k, key[2]>> \in DOMAIN links
            /\ \A x \in given.artwork :
                   x[1] \in GivenGroup(k) => <<k, x[2], x[3]>> \in artwork
            /\ ( k \notin DOMAIN given.metadata /\ Losers(k) \cap DOMAIN given.metadata # {} )
                   => /\ k \in DOMAIN metadata
                      /\ \E d \in Losers(k) \cap DOMAIN given.metadata :
                             metadata[k] = given.metadata[d]
            /\ \A src \in Sources :
                   ( /\ <<k, src>> \notin DOMAIN given.library
                     /\ \E d \in Losers(k) : <<d, src>> \in DOMAIN given.library )
                   => /\ <<k, src>> \in DOMAIN library
                      /\ \E d \in Losers(k) :
                             /\ <<d, src>> \in DOMAIN given.library
                             /\ library[<<k, src>>] = given.library[<<d, src>>]

\* Reconcile ran on a group whose keeper had no metadata row, and a loser of
\* it had one, a link and a library row for a source the keeper was not
\* linked to, and an artwork triple the keeper had not.
C23_Witness ==
    /\ last.op = "reconcile"
    /\ \E k \in Keepers :
           /\ k \notin DOMAIN given.metadata
           /\ \E d \in Losers(k), src \in Sources :
                  /\ d \in DOMAIN given.metadata
                  /\ <<d, src>> \in DOMAIN given.links
                  /\ <<k, src>> \notin DOMAIN given.links
                  /\ <<d, src>> \in DOMAIN given.library
                  /\ <<k, src>> \notin DOMAIN given.library
                  /\ \E x \in given.artwork :
                         x[1] = d /\ <<k, x[2], x[3]>> \notin given.artwork

\* A loser of the group of k had a row in the cache and k had none.
OnlyLoserCached(cache, k) == k \notin DOMAIN cache /\ Losers(k) \cap DOMAIN cache # {}

\* C24: after reconcile, for each kind of source cache (reference-hash,
\* game-database, screenshot-database): if some loser of a group had a cache
\* row of that kind and the keeper had none, the keeper has that cache row.
C24_CachesMoveToKeeper ==
    last.op = "reconcile" =>
        \A k \in Keepers :
            /\ OnlyLoserCached(given.hcache, k) => k \in DOMAIN hcache
            /\ OnlyLoserCached(given.igdb_cache, k) => k \in DOMAIN igdb_cache
            /\ OnlyLoserCached(given.screenscraper_cache, k)
                   => k \in DOMAIN screenscraper_cache

\* C25: reconcile_duplicates returns the number of entries it deleted, and a
\* second call made immediately after a first call returns 0 and changes no
\* row.
C25_CountAndIdempotence ==
    [][ last'.op = "reconcile" =>
          /\ last'.ret = Cardinality(DOMAIN roms \ DOMAIN roms')
          /\ DOMAIN roms' \subseteq DOMAIN roms
          /\ last.op = "reconcile" =>
                 /\ last'.ret = 0
                 /\ UNCHANGED <<dbVars, igdb_cache, screenscraper_cache>> ]_vars

\* A second call returned 0 after a first call that had deleted two entries.
C25_Witness ==
    /\ last.op = "reconcile"
    /\ last.ret = 0
    /\ Cardinality(DOMAIN given.roms) = Cardinality(DOMAIN roms) + 2


(***************************************************************************)
(* Claims about the cancellation of a DAT import                           *)
(***************************************************************************)

\* C30: a DAT import in progress accepts a cancellation signal, observes it
\* at each batch boundary, and inserts no further batch once the signal has
\* been raised.
C30_ImportStopsOnCancel ==
    [][ ( /\ last.op = "cancel"
          /\ importing.pc # "idle"
          /\ last.ret = ImportFileId )
        => DOMAIN dat_entries' \subseteq DOMAIN dat_entries ]_vars


(***************************************************************************)
(* Claims about the steps of enrichment                                    *)
(***************************************************************************)

\* C27: the MD5 that enrichment step 1 computes and stores for a locally
\* reachable file equals the MD5 that the hash engine returns for the same
\* path; for a zip container this is the digest of its first entry.
C27_Step1HashIsEngineHash ==
    [][ ( /\ enriching.pc = "hash"
          /\ enriching'.pc = "hasheous"
          /\ enriching.rows[enriching.i].source_type = "local"
          /\ roms' # roms )
        => LET row == enriching.rows[enriching.i]
           IN  roms'[row.id].hash_md5 = ComputeTripleHash(row.source_rom_id).md5 ]_vars

\* The screenshot rows of rom id.
ScreenshotsOf(id) == {x \in artwork : x[1] = id /\ x[2] = "screenshot"}

\* C26: a batch enrichment run never deletes or modifies an existing artwork
\* row and never creates a second row with the same (entry, type, url);
\* artwork rows are removed by enrichment only in a forced single-entry
\* refresh, and then only that entry's screenshots.
C26_ArtworkOnlyAdded ==
    [][ artwork \ artwork' \subseteq
            IF refreshing' # refreshing THEN ScreenshotsOf(refreshing.rom.id) ELSE {} ]_vars

\* After a batch run that stored screenshots for several roms, a forced
\* refresh of one rom deleted screenshots of that rom, and the rows of the
\* other roms are still there.
C26_Witness ==
    /\ enriching.ret = "ok"
    /\ refreshing.deleted # {}
    /\ \E id \in DOMAIN roms : id # refreshing.rom.id /\ ScreenshotsOf(id) # {}

\* C28: a forced single-entry refresh removes that entry's rows from every
\* source cache (reference-hash, game-database, screenshot-database) before
\* it performs any lookup, so that no data cached before the refresh is used
\* by it or survives it unrefreshed.
C28_CachesClearedFirst ==
    refreshing.looked # {} => refreshing.stale = {}

\* C31: whenever the reference-hash step has supplied a game-database
\* cross-reference id for an entry (freshly in this run or from cache), the
\* game-database data applied to that entry is the record with exactly that id
\* or nothing; a name search is issued only for entries without such an id.
C31_CrossReferenceIsExact ==
    [][ ( /\ enriching.pc = "igdb"
          /\ enriching'.pc = "launchbox"
          /\ CachedIgdbId(hcache, enriching.rows[enriching.i].id) # NoId )
        => LET id == enriching.rows[enriching.i].id
           IN  /\ {r \in requests' \ requests : r[1] = "igdb"} = {}
               /\ \/ igdb_cache' = igdb_cache
                  \/ igdb_cache'[id] = CachedIgdbId(hcache, id) ]_vars


(***************************************************************************)
(* Further claims about verification                                       *)
(***************************************************************************)

\* The row of the running verification and the rom it is about.
VerifiedRow == verifying.rows[verifying.i]

\* Rom id is linked to the local source and the file of the link exists.
HasLocalFile(id) ==
    /\ <<id, LocalSource>> \in DOMAIN links
    /\ links[<<id, LocalSource>>].source_rom_id # NULL
    /\ FileExists(links[<<id, LocalSource>>].source_rom_id)

\* C32: if an entry lacks at least one of its three hashes and has a link to
\* a local source whose file exists and is readable, verification computes all
\* three hashes from that file and stores them, whatever other links the
\* entry also has.
C32_LocalFileIsHashed ==
    [][ ( /\ verifying.pc = "hash"
          /\ verifying' # verifying
          /\ VerifiedRow.rom_id \in DOMAIN roms
          /\ NULL \in {VerifiedRow.crc, VerifiedRow.md5, VerifiedRow.sha1}
          /\ HasLocalFile(VerifiedRow.rom_id) )
        => LET path == links[<<VerifiedRow.rom_id, LocalSource>>].source_rom_id
           IN  /\ verifying'.pc = "lookup"
               /\ StoredHashes(roms'[VerifiedRow.rom_id]) = ComputeTripleHash(path) ]_vars

\* The items of the run that were left without hashing or classifying.
Skipped == verifying.done \ verifying.written

EnrichedId == enriching.rows[enriching.i].id

\* The requests about the running item that step 5 has just sent.
SsSent == {r \in requests' \ requests : r[1] = "screenscraper" /\ r[2] = EnrichedId}

\* C34: step 5 of the batch asks the screenshot database about a rom only if
\* the rom has no cache row; a match or a definite no-match leaves a cache row
\* for the rom, and a lookup that ended in an error, whether the error came as
\* a failed request or as the service's error text, leaves the cache as it was.
C34_ErrorsAreNotCached ==
    [][ (enriching.pc = "screenscraper" /\ enriching'.pc = "cover") =>
          /\ SsSent # {} => EnrichedId \notin DOMAIN screenscraper_cache
          /\ \A r \in SsSent :
                /\ (r[3] \in {"hit", "miss"} /\ EnrichedId \in DOMAIN roms)
                      => EnrichedId \in DOMAIN screenscraper_cache'
                /\ r[3] \in {"fail", "refused"}
                      => screenscraper_cache' = screenscraper_cache ]_vars


(* Claims about the DAT parser *)

\* C35: when parse_dat_file has returned Ok, its entries are the rom elements
\* that the document has inside a game or machine element, in the order of
\* the document, each with the name attribute of that game; a rom element in
\* the header or outside every game has no entry.
C35_OneEntryPerRom ==
    parsing.pc = "done" => parsing.entries = parsing.elems


\* The stored reference sets of the platform and type of the DAT d.
SetsOfKey(d) ==
    {f \in DOMAIN dat_files : /\ dat_files[f].platform_slug = DatWorld[d].platform_slug
                              /\ dat_files[f].dat_type = DatWorld[d].dat_type}

\* C36: an import that returns the error of the parse leaves dat_files and
\* dat_entries, the set of its own platform and type included, and every
\* other table as they were.
C36_FailedParseChangesNothing ==
    [][ (last'.op = "import_dat_file" /\ last' # last) =>
          /\ dat_files' = dat_files
          /\ dat_entries' = dat_entries
          /\ UNCHANGED <<dbVars, nextDatId, importing>> ]_vars

\* C36 witness: an import has failed on its parse while a set of its platform
\* and type, imported before, is stored with its entries.
C36_Witness ==
    /\ last.op = "import_dat_file"
    /\ importing.pc = "idle"
    /\ \E f \in SetsOfKey(last.args.name) :
          \E x \in DOMAIN dat_entries : dat_entries[x].dat_file_id = f


\* C37: when verification stores the status verified or bad_dump for a rom,
\* the reference entry it matched belongs to a DAT file imported for the
\* platform of the rom.
C37_OwnPlatformOnly ==
    [][ ( /\ verifying.pc = "lookup" /\ verifying'.pc = "top"
          /\ VerifiedRow.rom_id \in DOMAIN roms
          /\ roms' # roms
          /\ roms'[VerifiedRow.rom_id].verification_status \in {"verified", "bad_dump"} )
        => LET rom == roms'[VerifiedRow.rom_id]
               file == dat_entries[rom.dat_entry_id].dat_file_id
           IN  dat_files[file].platform_slug = Platforms[rom.platform_id].slug ]_vars


(* Claims about the removal of a source *)

\* C38: every rom has at least one row of source_roms; and remove_source
\* deletes the links of its source and no other link, deletes the roms left
\* without a link and no other rom, and leaves the row of every rom it keeps
\* as it was.
C38_NoEntryWithoutLink ==
    /\ [](\A id \in DOMAIN roms : LinksTo(id) # {})
    /\ [][ (last'.op = "remove_source" /\ last' # last) =>
             LET s == last'.args.source_id
             IN  /\ DOMAIN links' = {k \in DOMAIN links : k[2] # s}
                 /\ \A k \in DOMAIN links' : links'[k] = links[k]
                 /\ DOMAIN roms' = {id \in DOMAIN roms : \E k \in DOMAIN links : k[1] = id /\ k[2] # s}
                 /\ \A id \in DOMAIN roms' : roms'[id] = roms[id] ]_vars

\* C38 witness: remove_source has deleted more links than roms, and at least
\* one rom: a rom that was linked to the removed source and to another one is
\* still there, a rom that was linked to the removed source only is gone.
C38_Witness ==
    /\ last.op = "remove_source"
    /\ last.ret >= 1
    /\ last.phase > last.ret
    /\ DOMAIN roms # {}


(* Claims about the linkage to the reference entries *)

\* C39: a rom has a dat_entry_id or a dat_game_name only while its
\* verification_status is verified or bad_dump; a rom that is unverified has
\* neither.
C39_LinkageOnlyWhenMatched ==
    \A id \in DOMAIN roms :
        (roms[id].dat_entry_id # NoId \/ roms[id].dat_game_name # NULL)
            => roms[id].verification_status \in {"verified", "bad_dump"}


(* Claims about the cancel commands *)

\* C40: the token of every command that was running under the key of a cancel
\* command when the cancel command was called is cancelled.
C40_CancelReachesTheRunning ==
    \A o \in tokens.asked : o \in tokens.cancelled

============================================================================
